---- MODULE Spec2Model ----
(***************************************************************************)
(* Employee ticketing system: the chat dashboard's free-text command       *)
(* matcher (norm, levenshtein, similarity, fuzzyHit, fuzzyAction,          *)
(* detectQuickAction) of app/(employee)/employee-dashboard.tsx (English    *)
(* and Tagalog phrase table) and of src/app/app/dashboard/page.tsx (the    *)
(* same matcher with the Italian phrases added).                           *)
(*                                                                         *)
(* A JavaScript string is modelled as a sequence of characters; a          *)
(* character is a one-character TLA+ string, or "U+XXXX" for the few       *)
(* non-ASCII code points the model carries.                                *)
(***************************************************************************)
EXTENDS Integers, Sequences, FiniteSets, TLC

VARIABLES
  call,      \* which function the current call runs: "none", "norm", "similarity", "levenshtein", "detect"
  variant,   \* the dashboard whose matcher is called: "en" (employee-dashboard.tsx) or "it" (dashboard/page.tsx)
  raw,       \* the call's first string argument
  other,     \* the call's second string argument (similarity, levenshtein)
  ret,       \* the value the call returned, meaningful once pc = "done"
  pc,        \* the call's position: "idle", "called", "loop" (in levenshtein's nested loops), "done"
  dp,        \* levenshtein's table
  li, lj,    \* levenshtein's loop indices i and j
  updates,   \* number of dp[i][j] assignments made by the nested loops
  boot,           \* the dashboard's bootstrap effect: "services", "shift", "address", "done"
  services,       \* the services loaded for the composer's select
  shiftId,        \* the active shift's id, 0 for null
  activeStart,    \* the shift whose start time is shown, 0 for null
  activeGeo,      \* the shift whose position is shown, 0 for null
  activeAddr,     \* the shift whose address is shown, 0 for null
  messages,       \* the chat's messages, oldest first
  ticketDraft,    \* the composer's draft: serviceId, notes, sending
  flights,        \* the workflows that await, in the order they were started
  myTickets,      \* the number of tickets in the user's list
  detected,       \* detectQuickAction's result for each line typed in the chat
  addrCache,      \* reverseGeocode's module-level Map: key -> label
  geoCalls,       \* the reverseGeocode calls that await their fetch
  geoRet,         \* what the last reverseGeocode call that returned gave
  shifts,         \* the rows of the shifts table, in the order they were inserted
  shiftReqs,      \* the /api/shifts requests whose handler awaits a query
  shiftReply,     \* the last response of /api/shifts/start or /api/shifts/end
  tickets,        \* the rows of the tickets table, in the order they were inserted
  ticketReply,    \* the last response of POST /api/tickets, with its request
  memberships,    \* the rows of the memberships table that bootstrap reads and writes
  organizations,  \* the number of rows of the organizations table
  bootstrapReqs,  \* the /api/bootstrap/superadmin requests whose handler awaits a query
  bootstrapReply  \* the last response of /api/bootstrap/superadmin

matcherVars == <<call, variant, raw, other, ret, pc, dp, li, lj, updates>>

chatVars ==
  <<boot, services, shiftId, activeStart, activeGeo, activeAddr, messages, ticketDraft,
    flights, myTickets, detected>>

geoVars == <<addrCache, geoCalls, geoRet>>

shiftVars == <<shifts, shiftReqs, shiftReply>>

ticketVars == <<tickets, ticketReply>>

bootstrapVars == <<memberships, organizations, bootstrapReqs, bootstrapReply>>

vars == <<matcherVars, chatVars, geoVars, shiftVars, ticketVars, bootstrapVars>>

---------------------------------------------------------------------------
(* Characters and the classes the code's regular expressions use.          *)

LowerSeq ==
  <<"a", "b", "c", "d", "e", "f", "g", "h", "i", "j", "k", "l", "m",
    "n", "o", "p", "q", "r", "s", "t", "u", "v", "w", "x", "y", "z">>

UpperSeq ==
  <<"A", "B", "C", "D", "E", "F", "G", "H", "I", "J", "K", "L", "M",
    "N", "O", "P", "Q", "R", "S", "T", "U", "V", "W", "X", "Y", "Z">>

LowerAscii == {LowerSeq[i] : i \in 1..26}

UpperAscii == {UpperSeq[i] : i \in 1..26}

DigitChars == {"0", "1", "2", "3", "4", "5", "6", "7", "8", "9"}

\* \p{L}: the ASCII letters, e-acute (U+00E9, U+00C9), fullwidth T and t
\* (U+FF34, U+FF54) and the ligature fi (U+FB01).
Letters == LowerAscii \cup UpperAscii \cup {"U+00E9", "U+00C9", "U+FF34", "U+FF54", "U+FB01"}

\* \p{N}
Numbers == DigitChars

\* \s, and what String.prototype.trim removes: space, tab, line feed, no-break space.
WhiteSpace == {" ", "\t", "\n", "U+00A0"}

\* The characters "." does not match.
LineTerminators == {"\n"}

\* \w without the u flag.
WordChars == LowerAscii \cup UpperAscii \cup DigitChars \cup {"_"}

\* Everything else the model carries: punctuation and the combining acute
\* accent U+0301 (category Mn).
OtherChars == {".", "/", "_", "-", "!", "U+0301"}

Chars == Letters \cup Numbers \cup WhiteSpace \cup OtherChars

---------------------------------------------------------------------------
(* String primitives of JavaScript.                                        *)

\* String.prototype.toLowerCase, one character.
lowerChar(c) ==
  IF c \in UpperAscii THEN LowerSeq[CHOOSE i \in 1..26 : UpperSeq[i] = c]
  ELSE IF c = "U+00C9" THEN "U+00E9"
  ELSE IF c = "U+FF34" THEN "U+FF54"
  ELSE c

toLowerCase(s) == [i \in 1..Len(s) |-> lowerChar(s[i])]

\* The compatibility decomposition of one character.
compat(c) ==
  CASE c = "U+00A0" -> <<" ">>
    [] c = "U+FF34" -> <<"T">>
    [] c = "U+FF54" -> <<"t">>
    [] c = "U+FB01" -> <<"f", "i">>
    [] OTHER -> <<c>>

RECURSIVE decompose(_)
decompose(s) == IF s = <<>> THEN <<>> ELSE compat(Head(s)) \o decompose(Tail(s))

\* Canonical composition: a base letter followed by the combining acute.
RECURSIVE compose(_)
compose(s) ==
  IF Len(s) < 2 THEN s
  ELSE IF s[2] = "U+0301" /\ s[1] = "e" THEN <<"U+00E9">> \o compose(SubSeq(s, 3, Len(s)))
  ELSE IF s[2] = "U+0301" /\ s[1] = "E" THEN <<"U+00C9">> \o compose(SubSeq(s, 3, Len(s)))
  ELSE <<s[1]>> \o compose(Tail(s))

\* String.prototype.normalize('NFKC')
nfkc(s) == compose(decompose(s))

\* .replace(/[^\p{L}\p{N}\s]/gu, ' ')
replaceNonAlnum(s) ==
  [i \in 1..Len(s) |-> IF s[i] \in Letters \cup Numbers \cup WhiteSpace THEN s[i] ELSE " "]

\* .replace(/\s+/g, ' '): every maximal run of whitespace becomes one space.
RECURSIVE collapseWs(_)
collapseWs(s) ==
  IF s = <<>> THEN <<>>
  ELSE IF Head(s) \in WhiteSpace
       THEN IF Len(s) >= 2 /\ s[2] \in WhiteSpace
            THEN collapseWs(Tail(s))
            ELSE <<" ">> \o collapseWs(Tail(s))
       ELSE <<Head(s)>> \o collapseWs(Tail(s))

RECURSIVE trimStart(_)
trimStart(s) ==
  IF s # <<>> /\ Head(s) \in WhiteSpace THEN trimStart(Tail(s)) ELSE s

RECURSIVE trimEnd(_)
trimEnd(s) ==
  IF s # <<>> /\ s[Len(s)] \in WhiteSpace THEN trimEnd(SubSeq(s, 1, Len(s) - 1)) ELSE s

\* String.prototype.trim
trim(s) == trimEnd(trimStart(s))

\* String.prototype.includes
includes(a, b) ==
  \E k \in 0..(Len(a) - Len(b)) : SubSeq(a, k + 1, k + Len(b)) = b

---------------------------------------------------------------------------
(* The matcher.                                                            *)

CANON_en_start ==
  <<
    <<"s", "t", "a", "r", "t">>,
    <<"s", "t", "a", "r", "t", " ", "w", "o", "r", "k">>,
    <<"c", "l", "o", "c", "k", " ", "i", "n">>,
    <<"s", "i", "g", "n", " ", "i", "n">>,
    <<"p", "a", "s", "o", "k", " ", "n", "a">>,
    <<"m", "a", "g", " ", "s", "t", "a", "r", "t">>,
    <<"m", "a", "g", "s", "t", "a", "r", "t">>
  >>

CANON_en_end ==
  <<
    <<"e", "n", "d">>,
    <<"e", "n", "d", " ", "w", "o", "r", "k">>,
    <<"c", "l", "o", "c", "k", " ", "o", "u", "t">>,
    <<"s", "i", "g", "n", " ", "o", "u", "t">>,
    <<"f", "i", "n", "i", "s", "h">>,
    <<"d", "o", "n", "e">>,
    <<"t", "a", "p", "o", "s", " ", "n", "a">>,
    <<"u", "w", "i", " ", "n", "a">>
  >>

CANON_en_tickets ==
  <<
    <<"t", "i", "c", "k", "e", "t", "s">>,
    <<"m", "y", " ", "t", "i", "c", "k", "e", "t", "s">>,
    <<"v", "i", "e", "w", " ", "t", "i", "c", "k", "e", "t", "s">>,
    <<"t", "i", "n", "g", "n", "a", "n", " ", "t", "i", "c", "k", "e", "t", "s">>
  >>

CANON_en_ticket ==
  <<
    <<"s", "e", "n", "d", " ", "t", "i", "c", "k", "e", "t">>,
    <<"t", "i", "c", "k", "e", "t">>,
    <<"c", "r", "e", "a", "t", "e", " ", "t", "i", "c", "k", "e", "t">>,
    <<"o", "p", "e", "n", " ", "t", "i", "c", "k", "e", "t">>
  >>

CANON_it_start ==
  <<
    <<"i", "n", "i", "z", "i", "a">>,
    <<"i", "n", "i", "z", "i", "a", " ", "l", "a", "v", "o", "r", "o">>,
    <<"e", "n", "t", "r", "a">>,
    <<"t", "i", "m", "b", "r", "a", "t", "u", "r", "a", " ", "i", "n", "i", "z", "i", "o">>
  >>

CANON_it_end ==
  <<
    <<"f", "i", "n", "e">>,
    <<"f", "i", "n", "e", " ", "l", "a", "v", "o", "r", "o">>,
    <<"e", "s", "c", "i">>,
    <<"t", "i", "m", "b", "r", "a", "t", "u", "r", "a", " ", "f", "i", "n", "e">>
  >>

CANON_it_tickets ==
  <<
    <<"s", "e", "g", "n", "a", "l", "a", "z", "i", "o", "n", "i">>,
    <<"l", "e", " ", "m", "i", "e", " ", "s", "e", "g", "n", "a", "l", "a", "z", "i", "o", "n", "i">>,
    <<"v", "e", "d", "i", " ", "s", "e", "g", "n", "a", "l", "a", "z", "i", "o", "n", "i">>,
    <<"v", "i", "s", "u", "a", "l", "i", "z", "z", "a", " ", "s", "e", "g", "n", "a", "l", "a", "z", "i", "o", "n", "i">>
  >>

CANON_it_ticket ==
  <<
    <<"i", "n", "v", "i", "a", " ", "s", "e", "g", "n", "a", "l", "a", "z", "i", "o", "n", "e">>,
    <<"s", "e", "g", "n", "a", "l", "a", "z", "i", "o", "n", "e">>,
    <<"c", "r", "e", "a", " ", "s", "e", "g", "n", "a", "l", "a", "z", "i", "o", "n", "e">>,
    <<"a", "p", "r", "i", " ", "s", "e", "g", "n", "a", "l", "a", "z", "i", "o", "n", "e">>
  >>
\* The literals of the regular expressions.
W_ticket == <<"t", "i", "c", "k", "e", "t">>

W_segnalazione == <<"s", "e", "g", "n", "a", "l", "a", "z", "i", "o", "n", "e">>

W_segnalazioni == <<"s", "e", "g", "n", "a", "l", "a", "z", "i", "o", "n", "i">>

W_segnalazion == <<"s", "e", "g", "n", "a", "l", "a", "z", "i", "o", "n">>

W_send == <<"s", "e", "n", "d">>

W_invia == <<"i", "n", "v", "i", "a">>

W_start == <<"s", "t", "a", "r", "t">>

W_work == <<"w", "o", "r", "k">>

W_end == <<"e", "n", "d">>

W_view == <<"v", "i", "e", "w">>

W_tingnan == <<"t", "i", "n", "g", "n", "a", "n">>

W_my == <<"m", "y">>

W_inizia == <<"i", "n", "i", "z", "i", "a">>

W_lavoro == <<"l", "a", "v", "o", "r", "o">>

W_fine == <<"f", "i", "n", "e">>

W_vedi == <<"v", "e", "d", "i">>

W_visualizza == <<"v", "i", "s", "u", "a", "l", "i", "z", "z", "a">>

W_mie == <<"m", "i", "e">>

\* fuzzyAction's "no action".
null == "null"

\* detectQuickAction's null.
NoMatch == [null |-> TRUE]

\* CANON_en with the key ticket declared before tickets.
CANON_en_ticketFirst ==
  << [action |-> "start", list |-> CANON_en_start],
     [action |-> "end", list |-> CANON_en_end],
     [action |-> "ticket", list |-> CANON_en_ticket],
     [action |-> "tickets", list |-> CANON_en_tickets] >>

\* CANON of the English dashboard, in the order of its keys.
CANON_en ==
  << [action |-> "start", list |-> CANON_en_start],
     [action |-> "end", list |-> CANON_en_end],
     [action |-> "tickets", list |-> CANON_en_tickets],
     [action |-> "ticket", list |-> CANON_en_ticket] >>

\* CANON of the Italian dashboard: each list is the English one followed by
\* the Italian phrases.
CANON_it ==
  << [action |-> "start", list |-> CANON_en_start \o CANON_it_start],
     [action |-> "end", list |-> CANON_en_end \o CANON_it_end],
     [action |-> "tickets", list |-> CANON_en_tickets \o CANON_it_tickets],
     [action |-> "ticket", list |-> CANON_en_ticket \o CANON_it_ticket] >>

CANON(v) == IF v = "en" THEN CANON_en ELSE CANON_it

\* norm with the whitespace collapsed before the punctuation is replaced.
norm_collapseFirst(s) == trim(replaceNonAlnum(collapseWs(toLowerCase(nfkc(s)))))

\* norm with the punctuation removed instead of replaced by a space:
\* .replace(/[^\p{L}\p{N}\s]/gu, '')
norm_removePunct(s) ==
  trim(collapseWs(SelectSeq(toLowerCase(nfkc(s)),
                            LAMBDA c : c \in Letters \cup Numbers \cup WhiteSpace)))

norm(s) == trim(collapseWs(replaceNonAlnum(toLowerCase(nfkc(s)))))

Min3(x, y, z) == IF x <= y /\ x <= z THEN x ELSE IF y <= z THEN y ELSE z

\* The table with its first row left at the zeros of fill(0).
dpInit_zeroRow(m, n) ==
  [i \in 0..m |-> [j \in 0..n |-> IF j = 0 THEN i ELSE 0]]

\* The table after the two initialisation loops: dp[i][0] = i, dp[0][j] = j, 0 elsewhere.
dpInit(m, n) ==
  [i \in 0..m |-> [j \in 0..n |-> IF j = 0 THEN i ELSE IF i = 0 THEN j ELSE 0]]

\* The body of the nested loops with dp[i - 1][j] + 2 for its first term.
dpCell_costlyDelete(a, b, t, i, j) ==
  LET cost == IF a[i] = b[j] THEN 0 ELSE 1
  IN Min3(t[i - 1][j] + 2, t[i][j - 1] + 1, t[i - 1][j - 1] + cost)

\* The body of the nested loops: the value assigned to dp[i][j].
dpCell(a, b, t, i, j) ==
  LET cost == IF a[i] = b[j] THEN 0 ELSE 1
  IN Min3(t[i - 1][j] + 1, t[i][j - 1] + 1, t[i - 1][j - 1] + cost)

\* The inner loop from j on, in row i (j <= n: j is a column of the table).
RECURSIVE dpRow(_, _, _, _, _)
dpRow(a, b, t, i, j) ==
  IF j \notin DOMAIN t[i] THEN t
  ELSE dpRow(a, b, [t EXCEPT ![i][j] = dpCell(a, b, t, i, j)], i, j + 1)

\* The outer loop from i on (i <= m: i is a row of the table).
RECURSIVE dpFill(_, _, _, _)
dpFill(a, b, t, i) ==
  IF i \notin DOMAIN t THEN t
  ELSE dpFill(a, b, dpRow(a, b, t, i, 1), i + 1)

levenshtein(a, b) ==
  LET m == Len(a)
      n == Len(b)
  IN IF m = 0 THEN n
     ELSE IF n = 0 THEN m
     ELSE dpFill(a, b, dpInit(m, n), 1)[m][n]

Max(x, y) == IF x >= y THEN x ELSE y

\* The denominator without its "|| 1".
denom_noGuard(a, b) == Max(Len(a), Len(b))

\* similarity's denominator: Math.max(a.length, b.length) || 1
denom(a, b) == IF Max(Len(a), Len(b)) = 0 THEN 1 ELSE Max(Len(a), Len(b))

\* 1 - d / denom as the exact fraction num / den.
similarity(a, b) ==
  LET d == levenshtein(a, b)
  IN [num |-> denom(a, b) - d, den |-> denom(a, b)]

\* sim >= 0.78
SimThresholdPct == 78

\* The threshold with its digits transposed: sim >= 0.87
simAtLeastThreshold_87(sim) == sim.num * 100 >= 87 * sim.den

simAtLeastThreshold(sim) == sim.num * 100 >= SimThresholdPct * sim.den

ShortLen == 8

ShortDist == 2

\* fuzzyHit without its guard on empty strings.
fuzzyHit_noEmptyGuard(input, phrase) ==
  LET A == norm(input)
      B == norm(phrase)
  IN IF includes(A, B) \/ includes(B, A) THEN TRUE
     ELSE IF simAtLeastThreshold(similarity(A, B)) THEN TRUE
     ELSE IF Max(Len(A), Len(B)) <= ShortLen /\ levenshtein(A, B) <= ShortDist THEN TRUE
     ELSE FALSE

\* fuzzyHit with the short-string rule looking at the input's length only.
fuzzyHit_shortByInput(input, phrase) ==
  LET A == norm(input)
      B == norm(phrase)
  IN IF A = <<>> \/ B = <<>> THEN FALSE
     ELSE IF includes(A, B) \/ includes(B, A) THEN TRUE
     ELSE IF simAtLeastThreshold(similarity(A, B)) THEN TRUE
     ELSE IF Len(A) <= ShortLen /\ levenshtein(A, B) <= ShortDist THEN TRUE
     ELSE FALSE

\* fuzzyHit without its includes test.
fuzzyHit_noSubstring(input, phrase) ==
  LET A == norm(input)
      B == norm(phrase)
  IN IF A = <<>> \/ B = <<>> THEN FALSE
     ELSE IF simAtLeastThreshold(similarity(A, B)) THEN TRUE
     ELSE IF Max(Len(A), Len(B)) <= ShortLen /\ levenshtein(A, B) <= ShortDist THEN TRUE
     ELSE FALSE

fuzzyHit(input, phrase) ==
  LET A == norm(input)
      B == norm(phrase)
  IN IF A = <<>> \/ B = <<>> THEN FALSE
     ELSE IF includes(A, B) \/ includes(B, A) THEN TRUE
     ELSE IF simAtLeastThreshold(similarity(A, B)) THEN TRUE
     ELSE IF Max(Len(A), Len(B)) <= ShortLen /\ levenshtein(A, B) <= ShortDist THEN TRUE
     ELSE FALSE

---------------------------------------------------------------------------
(* The regular expressions, each modelled by the strings it matches.       *)

\* Literal text under the i flag: ASCII letters match in either case.
litAt(s, p, lit) ==
  /\ p >= 1
  /\ p + Len(lit) - 1 <= Len(s)
  /\ \A k \in 1..Len(lit) : lowerChar(s[p + k - 1]) = lit[k]

\* \b at the gap before position p (between s[p-1] and s[p]).
wordBoundary(s, p) ==
  LET before == p > 1 /\ p - 1 <= Len(s) /\ s[p - 1] \in WordChars
      after == p >= 1 /\ p <= Len(s) /\ s[p] \in WordChars
  IN before # after

\* /\b<lit>\b/i.test(s)
hasWord(s, lit) ==
  \E p \in 1..Len(s) :
    litAt(s, p, lit) /\ wordBoundary(s, p) /\ wordBoundary(s, p + Len(lit))

\* /\b<lit>(s)?\b/i.test(s)
hasWordOptS(s, lit) ==
  \E p \in 1..Len(s) :
    /\ litAt(s, p, lit)
    /\ wordBoundary(s, p)
    /\ \/ wordBoundary(s, p + Len(lit))
       \/ litAt(s, p + Len(lit), <<"s">>) /\ wordBoundary(s, p + Len(lit) + 1)

\* /\b<lit>/i.test(s)
hasWordStart(s, lit) ==
  \E p \in 1..Len(s) : litAt(s, p, lit) /\ wordBoundary(s, p)

\* The position after the longest run of whitespace that starts at p (\s* from p).
RECURSIVE skipWs(_, _)
skipWs(s, p) == IF p <= Len(s) /\ s[p] \in WhiteSpace THEN skipWs(s, p + 1) ELSE p

\* The end positions of the literals of lits that match at p, in the order written.
RECURSIVE litEnds(_, _, _)
litEnds(s, p, lits) ==
  IF lits = <<>> THEN <<>>
  ELSE (IF litAt(s, p, Head(lits)) THEN <<p + Len(Head(lits))>> ELSE <<>>)
       \o litEnds(s, p, Tail(lits))

\* First alternative's keyword: ticket; in "it" (?:ticket|segnalazione).
noteKeywords(v) ==
  IF v = "en" THEN <<W_ticket>> ELSE <<W_ticket, W_segnalazione>>

\* Second alternative's verb: send; in "it" (?:send|invia).
sendVerbs(v) == IF v = "en" THEN <<W_send>> ELSE <<W_send, W_invia>>

\* Second alternative's noun: ticket; in "it" (?:ticket|segnalazion[ei]).
sendNouns(v) ==
  IF v = "en" THEN <<W_ticket>> ELSE <<W_ticket, W_segnalazione, W_segnalazioni>>

\* \s*\/?\s*<keyword>: the positions after the keyword.
alt1Ends(v, s) ==
  LET p == skipWs(s, 1)
      p2 == IF p <= Len(s) /\ s[p] = "/" THEN p + 1 ELSE p
  IN litEnds(s, skipWs(s, p2), noteKeywords(v))

\* <verb>\s*<noun>s?: the positions after it, with the optional s first (greedy).
alt2Ends(v, s) ==
  LET ves == litEnds(s, 1, sendVerbs(v))
  IN IF ves = <<>> THEN <<>>
     ELSE LET nes == litEnds(s, skipWs(s, ves[1]), sendNouns(v))
          IN IF nes = <<>> THEN <<>>
             ELSE (IF litAt(s, nes[1], <<"s">>) THEN <<nes[1] + 1>> ELSE <<>>) \o <<nes[1]>>

\* \s+(.+)$ from position e: the start positions of the group (.+), which is
\* non-empty, runs to the end of the string and holds no line terminator.
groupStarts(s, e) ==
  {k \in (e + 1)..skipWs(s, e) :
     k <= Len(s) /\ \A x \in k..Len(s) : s[x] \notin LineTerminators}

\* The group of the first keyword end, in order, from which \s+(.+)$ matches;
\* \s+ is greedy, so the group starts as late as it can.
RECURSIVE firstGroup(_, _)
firstGroup(s, ends) ==
  IF ends = <<>> THEN [matched |-> FALSE, group |-> <<>>]
  ELSE LET K == groupStarts(s, Head(ends))
       IN IF K = {} THEN firstGroup(s, Tail(ends))
          ELSE [matched |-> TRUE,
                group |-> SubSeq(s, CHOOSE k \in K : \A k2 \in K : k2 <= k, Len(s))]

\* raw.match(/^(?:\s*\/?\s*ticket|send\s*ticket(?:s)?)\s+(.+)$/i), and in "it"
\* /^(?:\s*\/?\s*(?:ticket|segnalazione)|(?:send|invia)\s*(?:ticket|segnalazion[ei])s?)\s+(.+)$/i
ticketWithNote(v, s) == firstGroup(s, alt1Ends(v, s) \o alt2Ends(v, s))

\* The conjunctive regex rules after the loop, first match wins.
keywordRules_en(input) ==
  IF hasWord(input, W_start) /\ hasWord(input, W_work) THEN "start"
  ELSE IF hasWord(input, W_end) /\ hasWord(input, W_work) THEN "end"
  ELSE IF /\ hasWordOptS(input, W_ticket)
          /\ (hasWord(input, W_view) \/ hasWord(input, W_tingnan) \/ hasWord(input, W_my))
       THEN "tickets"
  ELSE IF hasWord(input, W_send) /\ hasWordOptS(input, W_ticket) THEN "ticket"
  ELSE null

\* The rules with the Italian send rule written before the Italian view rule.
keywordRules_sendFirst(v, input) ==
  IF v = "en" THEN keywordRules_en(input)
  ELSE IF hasWord(input, W_inizia) /\ hasWord(input, W_lavoro) THEN "start"
  ELSE IF hasWord(input, W_fine) /\ hasWord(input, W_lavoro) THEN "end"
  ELSE IF hasWord(input, W_invia) /\ hasWordStart(input, W_segnalazion) THEN "ticket"
  ELSE IF /\ hasWordStart(input, W_segnalazion)
          /\ (hasWord(input, W_vedi) \/ hasWord(input, W_visualizza) \/ hasWord(input, W_mie))
       THEN "tickets"
  ELSE keywordRules_en(input)

keywordRules(v, input) ==
  IF v = "en" THEN keywordRules_en(input)
  ELSE IF hasWord(input, W_inizia) /\ hasWord(input, W_lavoro) THEN "start"
  ELSE IF hasWord(input, W_fine) /\ hasWord(input, W_lavoro) THEN "end"
  ELSE IF /\ hasWordStart(input, W_segnalazion)
          /\ (hasWord(input, W_vedi) \/ hasWord(input, W_visualizza) \/ hasWord(input, W_mie))
       THEN "tickets"
  ELSE IF hasWord(input, W_invia) /\ hasWordStart(input, W_segnalazion) THEN "ticket"
  ELSE keywordRules_en(input)

\* list.some((p) => fuzzyHit(input, p))
someHit(input, list) == \E p \in 1..Len(list) : fuzzyHit(input, list[p])

\* The loop keeping the last action that hits instead of returning the first.
firstHit_lastWins(v, input, k) ==
  LET hits == {j \in k..Len(CANON(v)) : someHit(input, CANON(v)[j].list)}
  IN IF hits = {} THEN null
     ELSE CANON(v)[CHOOSE j \in hits : \A j2 \in hits : j2 <= j].action

\* The loop over Object.entries(CANON) from entry k on: the first action
\* one of whose phrases hits.
RECURSIVE firstHit(_, _, _)
firstHit(v, input, k) ==
  IF k > Len(CANON(v)) THEN null
  ELSE IF someHit(input, CANON(v)[k].list) THEN CANON(v)[k].action
  ELSE firstHit(v, input, k + 1)

fuzzyAction(v, input) ==
  LET action == firstHit(v, input, 1)
  IN IF action # null THEN action ELSE keywordRules(v, input)

detectQuickAction(v, s) ==
  LET m == ticketWithNote(v, s)
  IN IF m.matched /\ trim(m.group) # <<>>
     THEN [action |-> "ticket", note |-> trim(m.group)]
     ELSE LET action == fuzzyAction(v, s)
          IN IF action # null THEN [action |-> action] ELSE NoMatch

\* Chat lines: the specification's scenarios, every canonical phrase, typos,
\* inline notes, keyword pairs and unrelated text.
Corpus ==
  {
    <<"s", "t", "a", "r", "t", " ", "w", "o", "r", "k">>,
    <<"S", "T", "R", "T", " ", "W", "R", "K">>,
    <<"v", "i", "e", "w", " ", "t", "i", "c", "k", "e", "t", "s">>,
    <<"x", "y", "z", "1", "2", "3">>,
    <<"t", "i", "c", "k", "e", "t", " ", "t", "h", "e", " ", "p", "r", "i", "n", "t", "e", "r", " ", "o", "n", " ", "2", "n", "d", " ", "f", "l", "o", "o", "r", " ", "i", "s", " ", "j", "a", "m", "m", "e", "d">>,
    <<"s", "t", "a", "r", "t">>,
    <<"c", "l", "o", "c", "k", " ", "i", "n">>,
    <<"s", "i", "g", "n", " ", "i", "n">>,
    <<"p", "a", "s", "o", "k", " ", "n", "a">>,
    <<"m", "a", "g", " ", "s", "t", "a", "r", "t">>,
    <<"m", "a", "g", "s", "t", "a", "r", "t">>,
    <<"e", "n", "d">>,
    <<"e", "n", "d", " ", "w", "o", "r", "k">>,
    <<"c", "l", "o", "c", "k", " ", "o", "u", "t">>,
    <<"s", "i", "g", "n", " ", "o", "u", "t">>,
    <<"f", "i", "n", "i", "s", "h">>,
    <<"d", "o", "n", "e">>,
    <<"t", "a", "p", "o", "s", " ", "n", "a">>,
    <<"u", "w", "i", " ", "n", "a">>,
    <<"t", "i", "c", "k", "e", "t", "s">>,
    <<"m", "y", " ", "t", "i", "c", "k", "e", "t", "s">>,
    <<"t", "i", "n", "g", "n", "a", "n", " ", "t", "i", "c", "k", "e", "t", "s">>,
    <<"s", "e", "n", "d", " ", "t", "i", "c", "k", "e", "t">>,
    <<"t", "i", "c", "k", "e", "t">>,
    <<"c", "r", "e", "a", "t", "e", " ", "t", "i", "c", "k", "e", "t">>,
    <<"o", "p", "e", "n", " ", "t", "i", "c", "k", "e", "t">>,
    <<"i", "n", "i", "z", "i", "a">>,
    <<"i", "n", "i", "z", "i", "a", " ", "l", "a", "v", "o", "r", "o">>,
    <<"e", "n", "t", "r", "a">>,
    <<"t", "i", "m", "b", "r", "a", "t", "u", "r", "a", " ", "i", "n", "i", "z", "i", "o">>,
    <<"f", "i", "n", "e">>,
    <<"f", "i", "n", "e", " ", "l", "a", "v", "o", "r", "o">>,
    <<"e", "s", "c", "i">>,
    <<"t", "i", "m", "b", "r", "a", "t", "u", "r", "a", " ", "f", "i", "n", "e">>,
    <<"s", "e", "g", "n", "a", "l", "a", "z", "i", "o", "n", "i">>,
    <<"l", "e", " ", "m", "i", "e", " ", "s", "e", "g", "n", "a", "l", "a", "z", "i", "o", "n", "i">>,
    <<"v", "e", "d", "i", " ", "s", "e", "g", "n", "a", "l", "a", "z", "i", "o", "n", "i">>,
    <<"v", "i", "s", "u", "a", "l", "i", "z", "z", "a", " ", "s", "e", "g", "n", "a", "l", "a", "z", "i", "o", "n", "i">>,
    <<"i", "n", "v", "i", "a", " ", "s", "e", "g", "n", "a", "l", "a", "z", "i", "o", "n", "e">>,
    <<"s", "e", "g", "n", "a", "l", "a", "z", "i", "o", "n", "e">>,
    <<"c", "r", "e", "a", " ", "s", "e", "g", "n", "a", "l", "a", "z", "i", "o", "n", "e">>,
    <<"a", "p", "r", "i", " ", "s", "e", "g", "n", "a", "l", "a", "z", "i", "o", "n", "e">>,
    <<"t", "i", "k", "e", "t">>,
    <<"S", "t", "a", "r", "t", "-", "W", "o", "r", "k", "!">>,
    <<"E", "N", "D", ".">>,
    <<"c", "l", "o", "k", " ", "o", "u", "t">>,
    <<"s", "a", "r", "t">>,
    <<"t", "i", "k", "e", "t", "s">>,
    <<"t", "i", "c", "k", "e", "t", " ", "a", "\n", "b">>,
    <<"t", "i", "c", "k", "e", "t", " ", "p", "r", "i", "n", "t", "e", "r", " ", "j", "a", "m", "m", "e", "d", "\n", "p", "l", "e", "a", "s", "e", " ", "s", "e", "n", "d", " ", "s", "o", "m", "e", "o", "n", "e">>,
    <<"t", "i", "c", "k", "e", "t", ":", " ", "p", "r", "i", "n", "t", "e", "r", " ", "j", "a", "m", "m", "e", "d">>,
    <<"t", "i", "c", "k", "e", "t", "s", " ", "s">>,
    <<"s", "e", "n", "d", " ", "t", "i", "c", "k", "e", "t", " ", "f", "o", "o">>,
    <<"S", "e", "n", "d", " ", "T", "i", "c", "k", "e", "t", "s", " ", " ", "b", "a", "r">>,
    <<"s", "e", "n", "d", " ", "t", "i", "c", "k", "e", "t", " ", "s">>,
    <<"/", "t", "i", "c", "k", "e", "t", " ", "x">>,
    <<"t", "i", "c", "k", "e", "t", " ", "d", "o", "n", "e">>,
    <<"t", "i", "c", "k", "e", "t", " ", "e", "n", "d", " ", "w", "o", "r", "k">>,
    <<"s", "e", "g", "n", "a", "l", "a", "z", "i", "o", "n", "e", " ", "s", "t", "a", "m", "p", "a", "n", "t", "e", " ", "r", "o", "t", "t", "a">>,
    <<"i", "n", "v", "i", "a", " ", "s", "e", "g", "n", "a", "l", "a", "z", "i", "o", "n", "i", " ", "x">>,
    <<"i", " ", "w", "o", "r", "k", " ", "t", "o", " ", "s", "t", "a", "r", "t">>,
    <<"c", "a", "n", " ", "i", " ", "e", "n", "d", " ", "m", "y", " ", "w", "o", "r", "k", " ", "n", "o", "w">>,
    <<"t", "i", "c", "k", "e", "t", "s", " ", "p", "l", "e", "a", "s", "e", ",", " ", "v", "i", "e", "w", " ", "t", "h", "e", "m">>,
    <<"s", "e", "n", "d", " ", "a", "l", "l", " ", "t", "h", "e", " ", "t", "i", "c", "k", "e", "t", "s", " ", "o", "v", "e", "r">>,
    <<"i", "l", " ", "l", "a", "v", "o", "r", "o", " ", "o", "r", "a", " ", "i", "n", "i", "z", "i", "a">>,
    <<"f", "i", "n", "e", " ", "d", "i", " ", "q", "u", "e", "s", "t", "o", " ", "l", "a", "v", "o", "r", "o">>,
    <<"l", "e", " ", "s", "e", "g", "n", "a", "l", "a", "z", "i", "o", "n", "i", " ", "l", "e", " ", "v", "e", "d", "i">>,
    <<"i", "n", "v", "i", "a", " ", "u", "n", "a", " ", "s", "e", "g", "n", "a", "l", "a", "z", "i", "o", "n", "e">>,
    <<"s", "t", "a", "r", "t", "_", "w", "o", "r", "k", " ", "n", "o", "w", " ", "p", "l", "e", "a", "s", "e">>,
    <<"s", "e", "g", "n", "a", "l", "a", "z", "i", "o", "n", "x", " ", "v", "e", "d", "i">>,
    <<"v", "e", "d", "i", " ", "i", "n", "v", "i", "a", " ", "s", "e", "g", "n", "a", "l", "a", "z", "i", "o", "n", "x", "x">>,
    <<"i", "n", "v", "i", "a", " ", "l", "e", " ", "s", "e", "g", "n", "a", "l", "a", "z", "i", "o", "n", "x", "y", "z">>,
    <<"h", "e", "l", "l", "o", " ", "t", "h", "e", "r", "e">>,
    <<"w", "h", "a", "t", " ", "t", "i", "m", "e", " ", "i", "s", " ", "i", "t">>
  }

\* Beginnings of a chat line that the bounded tails below extend.
Stems ==
  {
    <<>>,
    <<"t", "i", "c", "k", "e", "t", " ">>,
    <<"S", "e", "n", "d", " ", " ", "t", "i", "c", "k", "e", "t", "s", " ">>,
    <<"/", "t", "i", "c", "k", "e", "t", "\n">>,
    <<"s", "e", "g", "n", "a", "l", "a", "z", "i", "o", "n", "e", " ">>,
    <<"i", "n", "v", "i", "a", " ", "s", "e", "g", "n", "a", "l", "a", "z", "i", "o", "n", "i", " ">>,
    <<"t", "i", "c", "k", "e", "t">>,
    <<"e", "n", "d", " ">>
  }

---------------------------------------------------------------------------
(* The calls: a call of norm, similarity or detectQuickAction takes its     *)
(* arguments and then returns; a call of levenshtein runs its nested loops *)
(* one assignment at a time.                                               *)

Variants == {"en", "it"}

\* All strings over alphabet of length at most n.
RECURSIVE StringsUpTo(_, _)
StringsUpTo(alphabet, n) ==
  IF n = 0 THEN {<<>>}
  ELSE LET shorter == StringsUpTo(alphabet, n - 1)
       IN shorter \cup {Append(s, c) : s \in shorter, c \in alphabet}

MaxNormLen == 4

MaxLevLen == 3

MaxTailLen == 3

NormAlphabet == {"e", "B", "2", " ", "U+00A0", ".", "U+FF34", "U+0301"}

LevAlphabet == {"a", "b", "c"}

TailAlphabet == {" ", "\n", "a"}

NormInputs == StringsUpTo(NormAlphabet, MaxNormLen)

LevInputs == StringsUpTo(LevAlphabet, MaxLevLen)

\* Every phrase of the two dashboards' tables.
CanonPhrases ==
  UNION {{CANON(v)[k].list[p] : p \in 1..Len(CANON(v)[k].list)} :
           v \in Variants, k \in 1..4}

\* Lines at the edges of fuzzyHit's rules.
EdgeLines ==
  {
    <<"c", "l", "o", "k", " ", "o", "t">>,
    <<"c", "l", "c", "k", " ", "o", "u", "t">>,
    <<" ", ".", " ">>,
    <<"a", "n", "d">>,
    <<"T", "a", "p", "o", "s", "-", "n", "a", "?">>
  }

\* The (input, phrase) pairs fuzzyHit is called with.
FuzzyPairs ==
  ((Corpus \cup EdgeLines) \X CanonPhrases) \cup (LevInputs \X LevInputs)
    \cup (EdgeLines \X EdgeLines)

DetectInputs ==
  Corpus \cup {stem \o t : stem \in Stems, t \in StringsUpTo(TailAlphabet, MaxTailLen)}

\* The bounds of the chat: the handler of a user's event leaves at most
\* MaxMessages messages, MaxFlights workflows in flight, MaxNotesLen
\* characters of notes and MaxTickets tickets listed or being sent.
MaxMessages == 4

MaxFlights == 2

MaxNotesLen == 3

MaxShiftId == 1

MaxTickets == 2

\* What the user types in the chat box.
ChatLines ==
  {
    <<>>,
    <<" ">>,
    <<"?", "!">>,
    <<"x", "y", "z">>,
    <<"s", "t", "a", "r", "t">>,
    <<"e", "n", "d">>,
    <<"t", "i", "c", "k", "e", "t", "s">>,
    <<"t", "i", "c", "k", "e", "t", " ", "x">>,
    <<"S", "e", "n", "d">>,
    <<"c", "a", "n", "c", "e", "l">>
  }

\* What the user types in the composer's notes field.
NoteTexts == {<<>>, <<" ">>, <<"p", "c">>}

----------------------------------------------------------------------------
(* reverseGeocode's key, and the inputs of the cache and of the routes.    *)
(* A coordinate is a whole number of tenths of a microdegree (1e-7         *)
(* degree); the numbers used have no last digit 5, so that toFixed(6)      *)
(* never rounds a tie.                                                     *)

MaxGeoCalls == 2
MaxShiftRows == 2
MaxShiftReqs == 2
MaxTicketRows == 2
MaxBootstrapReqs == 2
MaxOrganizations == 3

\* x.toFixed(6): the sign the string starts with and the number of
\* microdegrees it shows; a negative number that rounds to zero keeps its
\* sign ("-0.000000").
toFixed6(x) ==
  LET size == IF x < 0 THEN 0 - x ELSE x
  IN [minus |-> x < 0, micro |-> (size + 5) \div 10]

\* `${lat.toFixed(6)},${lng.toFixed(6)}`
geoKey(lat, lng) == [lat |-> toFixed6(lat), lng |-> toFixed6(lng)]

\* The positions reverseGeocode is called with: two of them differ and
\* have the same key, one is negative and rounds to "-0.000000".
GeoCoords ==
  {[lat |-> -4, lng |-> 3], [lat |-> 4, lng |-> 3], [lat |-> 6, lng |-> 3],
   [lat |-> 14, lng |-> 3], [lat |-> 14, lng |-> 8]}

\* What the fetch of /api/geocode gives: a response that is not OK, a
\* rejection or a body that is not JSON, a body whose label is empty or
\* missing, or a label.
GeoLabels == {"Tondo, Manila", "Manila"}

GeoResponses == {"notOk", "throws", "noLabel"} \cup GeoLabels

\* The callers of the shift routes: nobody signed in, a user without a
\* membership, and two members.
NoUser == ""

ShiftCallers == {NoUser, "u0", "u1", "u2"}

ShiftMembers == {"u1", "u2"}

\* A version-4 UUID written with one digit.
UuidOf(d) ==
  [i \in 1..36 |-> IF i \in {9, 14, 19, 24} THEN "-"
                   ELSE IF i = 15 THEN "4"
                   ELSE IF i = 20 THEN "8"
                   ELSE d]

\* The memberships and services tables POST /api/tickets reads: an
\* organisation is a number, ordered as org_id is.
Memberships ==
  {[user_id |-> "uA", org_id |-> 1], [user_id |-> "uB", org_id |-> 2],
   [user_id |-> "uAB", org_id |-> 1], [user_id |-> "uAB", org_id |-> 2]}

Services ==
  {[id |-> UuidOf("1"), org_id |-> 1], [id |-> UuidOf("2"), org_id |-> 2]}

TicketCallers == {NoUser, "u0", "uA", "uB", "uAB"}

\* The body of a request whose JSON could not be read, or that has no
\* string fields.
NoPayload == [json |-> FALSE, service_id |-> <<>>, description |-> <<>>]

\* The request bodies: the services of the two organisations, a UUID of no
\* service, and an id that is not a UUID; an empty, a blank and a padded
\* description.
TicketPayloads ==
  {NoPayload} \cup
  [json : {TRUE},
   service_id : {UuidOf("1"), UuidOf("2"), UuidOf("3"), <<"s", "v", "c", "-", "1">>},
   description : {<<>>, <<" ">>, <<" ", "p", "c", " ">>}]

Init ==
  /\ call = "none"
  /\ variant = "en"
  /\ raw = <<>>
  /\ other = <<>>
  /\ ret = <<>>
  /\ pc = "idle"
  /\ dp = <<>>
  /\ li = 0
  /\ lj = 0
  /\ updates = 0
  /\ boot = "services"
  /\ services = <<>>
  /\ shiftId = 0
  /\ activeStart = 0
  /\ activeGeo = 0
  /\ activeAddr = 0
  /\ messages = <<>>
  /\ ticketDraft = [serviceId |-> "", notes |-> <<>>, sending |-> FALSE]
  /\ flights = <<>>
  /\ myTickets = 0
  /\ detected = [line \in ChatLines |-> detectQuickAction("en", line)]
  /\ addrCache = [key \in {} |-> ""]
  /\ geoCalls = <<>>
  /\ geoRet = [returned |-> FALSE, key |-> geoKey(0, 0), label |-> "", fetched |-> FALSE]
  /\ shifts = <<>>
  /\ shiftReqs = <<>>
  /\ shiftReply = [route |-> "", status |-> 0]
  /\ tickets = <<>>
  /\ ticketReply = [status |-> 0, user |-> "", payload |-> NoPayload]
  /\ memberships = <<>>
  /\ organizations = 0
  /\ bootstrapReqs = <<>>
  /\ bootstrapReply = [status |-> 0, user |-> ""]

\* norm(s) is called.
CallNorm ==
  /\ call = "none"
  /\ \E s \in NormInputs : raw' = s
  /\ call' = "norm"
  /\ pc' = "called"
  /\ UNCHANGED <<variant, other, ret, dp, li, lj, updates>>
  /\ UNCHANGED <<chatVars, geoVars, shiftVars, ticketVars, bootstrapVars>>

ReturnNorm ==
  /\ call = "norm"
  /\ pc = "called"
  /\ ret' = norm(raw)
  /\ pc' = "done"
  /\ UNCHANGED <<call, variant, raw, other, dp, li, lj, updates>>
  /\ UNCHANGED <<chatVars, geoVars, shiftVars, ticketVars, bootstrapVars>>

\* similarity(a, b) is called.
CallSimilarity ==
  /\ call = "none"
  /\ \E a \in LevInputs, b \in LevInputs : raw' = a /\ other' = b
  /\ call' = "similarity"
  /\ pc' = "called"
  /\ UNCHANGED <<variant, ret, dp, li, lj, updates>>
  /\ UNCHANGED <<chatVars, geoVars, shiftVars, ticketVars, bootstrapVars>>

ReturnSimilarity ==
  /\ call = "similarity"
  /\ pc = "called"
  /\ ret' = similarity(raw, other)
  /\ pc' = "done"
  /\ UNCHANGED <<call, variant, raw, other, dp, li, lj, updates>>
  /\ UNCHANGED <<chatVars, geoVars, shiftVars, ticketVars, bootstrapVars>>

\* detectQuickAction(s) is called in one of the two dashboards.
CallDetect ==
  /\ call = "none"
  /\ \E v \in Variants, s \in DetectInputs : variant' = v /\ raw' = s
  /\ call' = "detect"
  /\ pc' = "called"
  /\ UNCHANGED <<other, ret, dp, li, lj, updates>>
  /\ UNCHANGED <<chatVars, geoVars, shiftVars, ticketVars, bootstrapVars>>

ReturnDetect ==
  /\ call = "detect"
  /\ pc = "called"
  /\ ret' = detectQuickAction(variant, raw)
  /\ pc' = "done"
  /\ UNCHANGED <<call, variant, raw, other, dp, li, lj, updates>>
  /\ UNCHANGED <<chatVars, geoVars, shiftVars, ticketVars, bootstrapVars>>

\* fuzzyHit(input, phrase) is called.
CallFuzzyHit ==
  /\ call = "none"
  /\ \E pair \in FuzzyPairs : raw' = pair[1] /\ other' = pair[2]
  /\ call' = "fuzzyHit"
  /\ pc' = "called"
  /\ UNCHANGED <<variant, ret, dp, li, lj, updates>>
  /\ UNCHANGED <<chatVars, geoVars, shiftVars, ticketVars, bootstrapVars>>

ReturnFuzzyHit ==
  /\ call = "fuzzyHit"
  /\ pc = "called"
  /\ ret' = fuzzyHit(raw, other)
  /\ pc' = "done"
  /\ UNCHANGED <<call, variant, raw, other, dp, li, lj, updates>>
  /\ UNCHANGED <<chatVars, geoVars, shiftVars, ticketVars, bootstrapVars>>

\* levenshtein(a, b) up to the nested loops: the two early returns, or the
\* table allocated and its first row and column filled.
LevStart ==
  /\ call = "none"
  /\ \E a \in LevInputs, b \in LevInputs :
       /\ raw' = a
       /\ other' = b
       /\ IF Len(a) = 0 THEN pc' = "done" /\ ret' = Len(b) /\ dp' = <<>> /\ li' = 0 /\ lj' = 0
          ELSE IF Len(b) = 0 THEN pc' = "done" /\ ret' = Len(a) /\ dp' = <<>> /\ li' = 0 /\ lj' = 0
          ELSE pc' = "loop" /\ ret' = ret /\ dp' = dpInit(Len(a), Len(b)) /\ li' = 1 /\ lj' = 1
  /\ call' = "levenshtein"
  /\ UNCHANGED <<variant, updates>>
  /\ UNCHANGED <<chatVars, geoVars, shiftVars, ticketVars, bootstrapVars>>

\* LevStep with the outer loop's i++ forgotten.
LevStep_noRowAdvance ==
  /\ call = "levenshtein"
  /\ pc = "loop"
  /\ IF li > Len(raw)
     THEN /\ pc' = "done"
          /\ ret' = dp[Len(raw)][Len(other)]
          /\ UNCHANGED <<dp, li, lj, updates>>
     ELSE IF lj > Len(other)
     THEN /\ lj' = 1
          /\ UNCHANGED <<pc, ret, dp, li, updates>>
     ELSE /\ dp' = [dp EXCEPT ![li][lj] = dpCell(raw, other, dp, li, lj)]
          /\ lj' = lj + 1
          /\ updates' = updates + 1
          /\ UNCHANGED <<pc, ret, li>>
  /\ UNCHANGED <<call, variant, raw, other>>
  /\ UNCHANGED <<chatVars, geoVars, shiftVars, ticketVars, bootstrapVars>>

\* One step of the nested loops: an assignment to dp[i][j], the end of a
\* row, or the return of dp[m][n].
LevStep ==
  /\ call = "levenshtein"
  /\ pc = "loop"
  /\ IF li > Len(raw)
     THEN /\ pc' = "done"
          /\ ret' = dp[Len(raw)][Len(other)]
          /\ UNCHANGED <<dp, li, lj, updates>>
     ELSE IF lj > Len(other)
     THEN /\ li' = li + 1
          /\ lj' = 1
          /\ UNCHANGED <<pc, ret, dp, updates>>
     ELSE /\ dp' = [dp EXCEPT ![li][lj] = dpCell(raw, other, dp, li, lj)]
          /\ lj' = lj + 1
          /\ updates' = updates + 1
          /\ UNCHANGED <<pc, ret, li>>
  /\ UNCHANGED <<call, variant, raw, other>>
  /\ UNCHANGED <<chatVars, geoVars, shiftVars, ticketVars, bootstrapVars>>

\* The call is over; the next one starts from nothing.
Return ==
  /\ call # "none"
  /\ pc = "done"
  /\ call' = "none"
  /\ variant' = "en"
  /\ raw' = <<>>
  /\ other' = <<>>
  /\ ret' = <<>>
  /\ pc' = "idle"
  /\ dp' = <<>>
  /\ li' = 0
  /\ lj' = 0
  /\ updates' = 0
  /\ UNCHANGED <<chatVars, geoVars, shiftVars, ticketVars, bootstrapVars>>

Next ==
  \/ CallNorm
  \/ ReturnNorm
  \/ CallSimilarity
  \/ ReturnSimilarity
  \/ CallDetect
  \/ ReturnDetect
  \/ CallFuzzyHit
  \/ ReturnFuzzyHit
  \/ LevStart
  \/ LevStep
  \/ Return

Spec == Init /\ [][Next]_vars

---------------------------------------------------------------------------
(* The chat dashboard (EmployeeDashboard, employee-dashboard.tsx): its     *)
(* React state, the handlers of the chat form, the buttons and the ticket  *)
(* composer, and the asynchronous workflows they start. A handler reads    *)
(* the state of the render it was created in and queues updates; the `st`  *)
(* records below are that state with the queued updates applied in order.  *)
(* A workflow that awaits (geolocation, a fetch) is in `flights` until its *)
(* last continuation has run. A shift id is a positive number and 0 is     *)
(* null; activeStart, activeGeo and activeAddr hold the id of the shift    *)
(* whose start time, position and address they show. A message is          *)
(* modelled by what it says: "user", "menu", "help", "ticket-composer".    *)
(* State that is only displayed (the tickets sheet, the loading flags, the *)
(* user's e-mail) is left out.                                             *)

EmptyDraft == [serviceId |-> "", notes |-> <<>>, sending |-> FALSE]

\* The state a handler works on.
State ==
  [shiftId |-> shiftId, activeStart |-> activeStart, activeGeo |-> activeGeo,
   activeAddr |-> activeAddr, services |-> services, messages |-> messages,
   ticketDraft |-> ticketDraft, flights |-> flights, myTickets |-> myTickets]

\* An asynchronous workflow up to its next await, with what it sends from
\* its closure: endShift the shift id, sendTicket the draft.
Flight(op, at, st) ==
  [op |-> op, pc |-> at,
   shift |-> IF op = "endShift" THEN st.shiftId ELSE 0,
   serviceId |-> IF op = "sendTicket" THEN st.ticketDraft.serviceId ELSE "",
   notes |-> IF op = "sendTicket" THEN st.ticketDraft.notes ELSE <<>>]

composerVisible(st) == \E k \in 1..Len(st.messages) : st.messages[k] = "ticket-composer"

canSendTicket(st) ==
  /\ st.shiftId # 0
  /\ st.ticketDraft.serviceId # ""
  /\ trim(st.ticketDraft.notes) # <<>>
  /\ ~st.ticketDraft.sending

addAssistant(st, content) == [st EXCEPT !.messages = Append(@, content)]

addUser(st) == [st EXCEPT !.messages = Append(@, "user")]

\* showMenu: the message that carries the four action buttons.
showMenu(st) == addAssistant(st, "menu")

\* The buttons a message carries.
buttonsOf(content) ==
  IF content = "menu" THEN {"start", "end", "ticket", "tickets"}
  ELSE IF content = "notClockedIn" THEN {"start", "tickets", "cancel"}
  ELSE {}

removeComposer(ms) == SelectSeq(ms, LAMBDA m : m # "ticket-composer")

startShift(st) ==
  IF st.shiftId # 0 THEN showMenu(addAssistant(st, "alreadyActive"))
     ELSE [st EXCEPT !.flights = Append(@, Flight("startShift", "geo", st))]

endShift(st) ==
  IF st.shiftId = 0 THEN showMenu(addAssistant(st, "notOnTheClock"))
     ELSE [st EXCEPT !.flights = Append(@, Flight("endShift", "geo", st))]

\* beginTicket without requireActiveShift.
beginTicket_noGuard(st, prefill) ==
  LET first == IF st.services # <<>> THEN st.services[1] ELSE st.ticketDraft.serviceId
      d == [st EXCEPT !.ticketDraft =
              [serviceId |-> first, notes |-> prefill, sending |-> FALSE]]
  IN addAssistant(addAssistant(d, "composerIntro"), "ticket-composer")

beginTicket(st, prefill) ==
  IF st.shiftId = 0 THEN addAssistant(st, "notClockedIn")
  ELSE LET first == IF st.services # <<>> THEN st.services[1] ELSE st.ticketDraft.serviceId
           d == [st EXCEPT !.ticketDraft =
                   [serviceId |-> first, notes |-> prefill, sending |-> FALSE]]
       IN addAssistant(addAssistant(d, "composerIntro"), "ticket-composer")

sendTicket(st) ==
  IF st.shiftId = 0 THEN addAssistant(st, "notClockedIn")
     ELSE IF ~canSendTicket(st) THEN addAssistant(st, "pickService")
     ELSE [st EXCEPT !.ticketDraft.sending = TRUE,
                     !.flights = Append(@, Flight("sendTicket", "post", st))]

cancelTicket(st) ==
  showMenu(addAssistant([st EXCEPT !.messages = removeComposer(@),
                                   !.ticketDraft = EmptyDraft],
                        "canceled"))

\* openTickets up to its first await (the sheet it opens is not modelled).
openTickets(st) ==
  [st EXCEPT !.flights = Append(@, Flight("openTickets", "auth", st))]

\* replyDefault without its showMenu call.
replyDefault_noMenu(st) == addAssistant(st, "help")

replyDefault(st) == showMenu(addAssistant(st, "help"))

handleQuickAction(st0, action) ==
  LET st == addUser(st0)
  IN IF action = "start" THEN startShift(st)
     ELSE IF action = "end" THEN endShift(st)
     ELSE IF action = "ticket" THEN beginTicket(st, <<>>)
     ELSE IF action = "sendTicket" THEN sendTicket(st)
     ELSE IF action = "tickets" THEN openTickets(st)
     ELSE IF action = "cancel" THEN cancelTicket(st)
     ELSE st

\* detectQuickAction is a function of the line alone: found is read from
\* `detected`, where Init put its value for every line of ChatLines.
handleTextCommand(st0, line) ==
  LET st == addUser(st0)
      found == detected[line]
  IN IF found = NoMatch THEN replyDefault(st)
     ELSE IF found.action = "start" THEN startShift(st)
     ELSE IF found.action = "end" THEN endShift(st)
     ELSE IF found.action = "tickets" THEN openTickets(st)
     ELSE beginTicket(st, IF "note" \in DOMAIN found THEN found.note ELSE <<>>)

\* A test for a line that starts with "send".
isSendWord_prefix(low) == Len(low) >= 4 /\ SubSeq(low, 1, 4) = W_send

\* /^(send|submit)$/.test(low)
isSendWord(low) == low \in {W_send, <<"s", "u", "b", "m", "i", "t">>}

\* /^(cancel|wag na|huwag na)$/.test(low)
isCancelWord(low) ==
  low \in {<<"c", "a", "n", "c", "e", "l">>, <<"w", "a", "g", " ", "n", "a">>,
           <<"h", "u", "w", "a", "g", " ", "n", "a">>}

handleChatSubmit(st, input) ==
  LET line == trim(input)
      low == toLowerCase(line)
  IN IF line = <<>> THEN st
     ELSE IF composerVisible(st)
     THEN IF isSendWord(low) THEN sendTicket(st)
          ELSE IF isCancelWord(low) THEN cancelTicket(st)
          ELSE [st EXCEPT !.ticketDraft.notes =
                  IF @ # <<>> THEN @ \o <<" ">> \o line ELSE line]
     ELSE handleTextCommand(st, line)

\* The continuation of flights[k] is over: the workflow has returned.
landed(st, k) ==
  [st EXCEPT !.flights = SubSeq(@, 1, k - 1) \o SubSeq(@, k + 1, Len(@))]

\* startShift after getGeo: the position, or the rejection caught.
startShift_geo(st, k, resolved) ==
  IF resolved THEN [st EXCEPT !.flights[k].pc = "post"]
  ELSE showMenu(addAssistant(landed(st, k), "error"))

\* startShift that sets the shift's fields whatever the POST answered.
startShift_post_optimistic(st, k, ok, id, row, addr) ==
  showMenu(addAssistant([landed(st, k) EXCEPT
                           !.shiftId = id,
                           !.activeStart = id,
                           !.activeGeo = IF row THEN id ELSE 0,
                           !.activeAddr = IF row /\ addr THEN id ELSE 0],
                        IF ok THEN "started" ELSE "error"))

\* startShift after the POST: an error reply (or a throw), or the new
\* shift's id, its row if the select found it, and its address if the row
\* had one or reverseGeocode gave one.
startShift_post(st, k, ok, id, row, addr) ==
  IF ~ok THEN showMenu(addAssistant(landed(st, k), "error"))
  ELSE showMenu(addAssistant([landed(st, k) EXCEPT
                                !.shiftId = id,
                                !.activeStart = id,
                                !.activeGeo = IF row THEN id ELSE 0,
                                !.activeAddr = IF row /\ addr THEN id ELSE 0],
                             "started"))

endShift_geo(st, k, resolved) ==
  IF resolved THEN [st EXCEPT !.flights[k].pc = "post"]
  ELSE showMenu(addAssistant(landed(st, k), "error"))

endShift_post(st, k, ok) ==
  IF ~ok THEN showMenu(addAssistant(landed(st, k), "error"))
  ELSE showMenu(addAssistant([landed(st, k) EXCEPT
                                !.shiftId = 0, !.activeStart = 0,
                                !.activeGeo = 0, !.activeAddr = 0],
                             "ended"))

\* sendTicket whose clean-up runs only after a ticket was submitted.
sendTicket_post_noFinally(st, k, ok) ==
  IF ok THEN showMenu([addAssistant([landed(st, k) EXCEPT !.myTickets = @ + 1], "submitted")
                         EXCEPT !.messages = removeComposer(@), !.ticketDraft = EmptyDraft])
  ELSE addAssistant(landed(st, k), "error")

\* sendTicket after the POST, with its finally block.
sendTicket_post(st, k, ok) ==
  LET replied == IF ok THEN addAssistant([landed(st, k) EXCEPT !.myTickets = @ + 1],
                                         "submitted")
                 ELSE addAssistant(landed(st, k), "error")
  IN showMenu([replied EXCEPT !.messages = removeComposer(@),
                              !.ticketDraft = EmptyDraft])

\* openTickets after its awaits: the list read (empty without a user), or a
\* throw that leaves the list as it was.
openTickets_done(st, k, thrown, n) ==
  [landed(st, k) EXCEPT !.myTickets = IF thrown THEN @ ELSE n]

\* The state after a handler or a continuation has run.
Commit(st) ==
  /\ shiftId' = st.shiftId
  /\ activeStart' = st.activeStart
  /\ activeGeo' = st.activeGeo
  /\ activeAddr' = st.activeAddr
  /\ services' = st.services
  /\ messages' = st.messages
  /\ ticketDraft' = st.ticketDraft
  /\ flights' = st.flights
  /\ myTickets' = st.myTickets
  /\ UNCHANGED detected

\* The state a handler of a user's event leaves is within the model's
\* bounds.
Within(st) ==
  /\ Len(st.messages) <= MaxMessages
  /\ Len(st.flights) <= MaxFlights
  /\ Len(st.ticketDraft.notes) <= MaxNotesLen
  /\ st.myTickets + Len(SelectSeq(st.flights, LAMBDA f : f.op = "sendTicket")) <= MaxTickets

\* The bootstrap effect's first awaits: the membership and the services.
BootServices ==
  /\ boot = "services"
  /\ \E s \in {<<>>, <<"svc1">>} : services' = s
  /\ boot' = "shift"
  /\ UNCHANGED <<shiftId, activeStart, activeGeo, activeAddr, messages, ticketDraft,
                 flights, myTickets, detected, matcherVars, geoVars, shiftVars, ticketVars, bootstrapVars>>

\* The bootstrap effect's later awaits: the user, the tickets and the open
\* shift, whose fields are set when there is one.
BootShift ==
  /\ boot = "shift"
  /\ \E n \in 0..MaxTickets, id \in 0..MaxShiftId, geo \in BOOLEAN, addr \in BOOLEAN :
       /\ myTickets' = n
       /\ IF id = 0
          THEN /\ UNCHANGED <<shiftId, activeStart, activeGeo, activeAddr>>
               /\ boot' = "done"
               /\ ~geo /\ ~addr
          ELSE /\ shiftId' = id
               /\ activeStart' = id
               /\ activeGeo' = IF geo THEN id ELSE 0
               /\ activeAddr' = IF addr THEN id ELSE 0
               /\ boot' = IF ~addr /\ geo THEN "address" ELSE "done"
  /\ UNCHANGED <<services, messages, ticketDraft, flights, detected, matcherVars, geoVars, shiftVars, ticketVars, bootstrapVars>>

\* The bootstrap effect after reverseGeocode: the address, if it gave one.
BootAddress ==
  /\ boot = "address"
  /\ \E found \in BOOLEAN :
       activeAddr' = IF found THEN activeGeo ELSE activeAddr
  /\ boot' = "done"
  /\ UNCHANGED <<shiftId, activeStart, activeGeo, services, messages, ticketDraft,
                 flights, myTickets, detected, matcherVars, geoVars, shiftVars, ticketVars, bootstrapVars>>

\* The chat form is submitted with a line in the chat box (the draft's notes
\* stay within MaxNotesLen characters).
SubmitChat ==
  /\ \E line \in ChatLines :
       LET st == handleChatSubmit(State, line)
       IN Within(st) /\ Commit(st)
  /\ UNCHANGED <<boot, matcherVars, geoVars, shiftVars, ticketVars, bootstrapVars>>

\* A suggestion of the empty chat, or a button of the last assistant
\* message that has buttons, is clicked.
ClickButton ==
  /\ LET withButtons == {k \in 1..Len(messages) : buttonsOf(messages[k]) # {}}
         offered == IF messages = <<>> THEN {"start", "end", "tickets", "ticket"}
                    ELSE IF withButtons = {} THEN {}
                    ELSE buttonsOf(messages[CHOOSE k \in withButtons :
                                              \A k2 \in withButtons : k2 <= k])
     IN \E action \in offered :
          LET st == handleQuickAction(State, action)
          IN Within(st) /\ Commit(st)
  /\ UNCHANGED <<boot, matcherVars, geoVars, shiftVars, ticketVars, bootstrapVars>>

\* The composer's Send Ticket button, enabled by canSendTicket.
ClickSend ==
  /\ composerVisible(State)
  /\ canSendTicket(State)
  /\ LET st == sendTicket(State)
     IN Within(st) /\ Commit(st)
  /\ UNCHANGED <<boot, matcherVars, geoVars, shiftVars, ticketVars, bootstrapVars>>

\* The composer's Cancel button.
ClickCancel ==
  /\ composerVisible(State)
  /\ ~ticketDraft.sending
  /\ LET st == cancelTicket(State)
     IN Within(st) /\ Commit(st)
  /\ UNCHANGED <<boot, matcherVars, geoVars, shiftVars, ticketVars, bootstrapVars>>

\* The composer's notes field is edited.
EditNotes ==
  /\ composerVisible(State)
  /\ shiftId # 0
  /\ ~ticketDraft.sending
  /\ \E text \in NoteTexts :
       Commit([State EXCEPT !.ticketDraft.notes = text])
  /\ UNCHANGED <<boot, matcherVars, geoVars, shiftVars, ticketVars, bootstrapVars>>

\* A service is picked in the composer.
SelectService ==
  /\ composerVisible(State)
  /\ shiftId # 0
  /\ boot # "services"
  /\ services # <<>>
  /\ ~ticketDraft.sending
  /\ \E k \in 1..Len(services) :
       Commit([State EXCEPT !.ticketDraft.serviceId = services[k]])
  /\ UNCHANGED <<boot, matcherVars, geoVars, shiftVars, ticketVars, bootstrapVars>>

newChat ==
  /\ messages # <<>>
  /\ Commit([State EXCEPT !.messages = <<>>, !.ticketDraft = EmptyDraft])
  /\ UNCHANGED <<boot, matcherVars, geoVars, shiftVars, ticketVars, bootstrapVars>>

\* A workflow in flight resumes after its await.
Resume ==
  /\ \E k \in 1..Len(flights) :
       LET f == flights[k]
       IN \/ /\ f.op = "startShift" /\ f.pc = "geo"
             /\ \E resolved \in BOOLEAN : Commit(startShift_geo(State, k, resolved))
          \/ /\ f.op = "startShift" /\ f.pc = "post"
             /\ \E ok \in BOOLEAN, id \in 1..MaxShiftId, row \in BOOLEAN, addr \in BOOLEAN :
                  /\ ~ok => (id = 1 /\ row /\ addr)
                  /\ ~row => addr
                  /\ Commit(startShift_post(State, k, ok, id, row, addr))
          \/ /\ f.op = "endShift" /\ f.pc = "geo"
             /\ \E resolved \in BOOLEAN : Commit(endShift_geo(State, k, resolved))
          \/ /\ f.op = "endShift" /\ f.pc = "post"
             /\ \E ok \in BOOLEAN : Commit(endShift_post(State, k, ok))
          \/ /\ f.op = "sendTicket"
             /\ \E ok \in BOOLEAN : Commit(sendTicket_post(State, k, ok))
          \/ /\ f.op = "openTickets"
             /\ \E thrown \in BOOLEAN, n \in 0..MaxTickets :
                  /\ thrown => n = 0
                  /\ Commit(openTickets_done(State, k, thrown, n))
  /\ UNCHANGED <<boot, matcherVars, geoVars, shiftVars, ticketVars, bootstrapVars>>

ChatNext ==
  \/ BootServices
  \/ BootShift
  \/ BootAddress
  \/ SubmitChat
  \/ ClickButton
  \/ ClickSend
  \/ ClickCancel
  \/ EditNotes
  \/ SelectService
  \/ newChat
  \/ Resume

ChatSpec == Init /\ [][ChatNext]_vars

----------------------------------------------------------------------------
(* reverseGeocode and its cache (employee-dashboard.tsx; dashboard/page.tsx *)
(* has the same code). A call runs to its return when the key is cached,   *)
(* and to its fetch otherwise; the calls that await are in geoCalls.       *)

\* reverseGeocode(lat, lng) up to its return or its await.
reverseGeocode(lat, lng) ==
  LET key == geoKey(lat, lng)
  IN /\ IF key \in DOMAIN addrCache
        THEN /\ geoRet' = [returned |-> TRUE, key |-> key, label |-> addrCache[key],
                           fetched |-> FALSE]
             /\ UNCHANGED geoCalls
        ELSE /\ Len(geoCalls) < MaxGeoCalls
             /\ geoCalls' = Append(geoCalls, [lat |-> lat, lng |-> lng])
             /\ UNCHANGED geoRet
     /\ UNCHANGED <<addrCache, matcherVars, chatVars, shiftVars, ticketVars, bootstrapVars>>

\* geoCalls[k] after its fetch: a label is stored and returned, anything
\* else returns null (the empty label here).
reverseGeocode_fetched(k, response) ==
  LET key == geoKey(geoCalls[k].lat, geoCalls[k].lng)
      label == IF response \in GeoLabels THEN response ELSE ""
  IN /\ geoCalls' = SubSeq(geoCalls, 1, k - 1) \o SubSeq(geoCalls, k + 1, Len(geoCalls))
     /\ addrCache' = IF label # ""
                     THEN [c \in DOMAIN addrCache \cup {key} |->
                             IF c = key THEN label ELSE addrCache[c]]
                     ELSE addrCache
     /\ geoRet' = [returned |-> TRUE, key |-> key, label |-> label, fetched |-> TRUE]
     /\ UNCHANGED <<matcherVars, chatVars, shiftVars, ticketVars, bootstrapVars>>

CallReverseGeocode == \E c \in GeoCoords : reverseGeocode(c.lat, c.lng)

ResumeReverseGeocode ==
  \E k \in 1..Len(geoCalls), response \in GeoResponses : reverseGeocode_fetched(k, response)

GeoNext ==
  \/ CallReverseGeocode
  \/ ResumeReverseGeocode

GeoSpec == Init /\ [][GeoNext]_vars

----------------------------------------------------------------------------
(* POST /api/shifts/start and POST /api/shifts/end. A handler runs between *)
(* its awaits; a request whose handler awaits a query of the shifts table  *)
(* is in shiftReqs with the query it awaits. A row of shifts is its        *)
(* user_id and its end_at, 0 for null; a row's id is its place in the      *)
(* table, and rows are inserted in the order of their start_at.            *)

shiftDone(k) == SubSeq(shiftReqs, 1, k - 1) \o SubSeq(shiftReqs, k + 1, Len(shiftReqs))

openShifts(user) == {id \in 1..Len(shifts) : shifts[id].user_id = user /\ shifts[id].end_at = 0}

\* start: the user, the body and the membership are checked; then the
\* handler awaits the update that ends the user's open shifts.
PostShiftsStart ==
  /\ \E user \in ShiftCallers, geo \in BOOLEAN, memErr \in BOOLEAN :
       LET status == IF user = NoUser THEN 401
                     ELSE IF ~geo THEN 422
                     ELSE IF memErr THEN 400
                     ELSE IF user \notin ShiftMembers THEN 403
                     ELSE 0
       IN IF status # 0
          THEN /\ shiftReply' = [route |-> "start", status |-> status]
               /\ UNCHANGED shiftReqs
          ELSE /\ Len(shiftReqs) < MaxShiftReqs
               /\ Len(shifts) + Len(SelectSeq(shiftReqs, LAMBDA r : r.route = "start"))
                    < MaxShiftRows
               /\ shiftReqs' = Append(shiftReqs, [route |-> "start", user |-> user,
                                                  pc |-> "update", shift_id |-> 0])
               /\ UNCHANGED shiftReply
  /\ UNCHANGED <<shifts, matcherVars, chatVars, geoVars, ticketVars, bootstrapVars>>

\* start: the update has run (its result is not read), the insert is
\* awaited.
ShiftsStart_updated ==
  /\ \E k \in 1..Len(shiftReqs), failed \in BOOLEAN :
       /\ shiftReqs[k].route = "start"
       /\ shiftReqs[k].pc = "update"
       /\ shifts' = IF failed THEN shifts
                    ELSE [id \in 1..Len(shifts) |->
                            IF id \in openShifts(shiftReqs[k].user)
                            THEN [shifts[id] EXCEPT !.end_at = 1]
                            ELSE shifts[id]]
       /\ shiftReqs' = [shiftReqs EXCEPT ![k].pc = "insert"]
  /\ UNCHANGED <<shiftReply, matcherVars, chatVars, geoVars, ticketVars, bootstrapVars>>

\* start: the insert has run.
ShiftsStart_inserted ==
  /\ \E k \in 1..Len(shiftReqs), insErr \in BOOLEAN :
       /\ shiftReqs[k].route = "start"
       /\ shiftReqs[k].pc = "insert"
       /\ shifts' = IF insErr THEN shifts
                    ELSE Append(shifts, [user_id |-> shiftReqs[k].user, end_at |-> 0])
       /\ shiftReply' = [route |-> "start", status |-> IF insErr THEN 400 ELSE 200]
       /\ shiftReqs' = shiftDone(k)
  /\ UNCHANGED <<matcherVars, chatVars, geoVars, ticketVars, bootstrapVars>>

\* end: the user and the body are checked; then the handler awaits the
\* query for the open shift (the one of body.shift_id, or the newest).
PostShiftsEnd ==
  /\ \E user \in ShiftCallers, geo \in BOOLEAN, shift_id \in 0..MaxShiftRows :
       LET status == IF user = NoUser THEN 401
                     ELSE IF ~geo THEN 422
                     ELSE 0
       IN IF status # 0
          THEN /\ shiftReply' = [route |-> "end", status |-> status]
               /\ UNCHANGED shiftReqs
          ELSE /\ Len(shiftReqs) < MaxShiftReqs
               /\ shiftReqs' = Append(shiftReqs, [route |-> "end", user |-> user,
                                                  pc |-> "select", shift_id |-> shift_id])
               /\ UNCHANGED shiftReply
  /\ UNCHANGED <<shifts, matcherVars, chatVars, geoVars, ticketVars, bootstrapVars>>

\* end: the query has run; without a row the reply is 400, with one the
\* update of that row is awaited.
ShiftsEnd_selected ==
  /\ \E k \in 1..Len(shiftReqs), openErr \in BOOLEAN :
       LET r == shiftReqs[k]
           found == IF r.shift_id # 0 THEN openShifts(r.user) \cap {r.shift_id}
                    ELSE {id \in openShifts(r.user) : \A id2 \in openShifts(r.user) : id2 <= id}
       IN /\ r.route = "end"
          /\ r.pc = "select"
          /\ IF openErr \/ found = {}
             THEN /\ shiftReply' = [route |-> "end", status |-> 400]
                  /\ shiftReqs' = shiftDone(k)
             ELSE /\ shiftReqs' = [shiftReqs EXCEPT ![k].pc = "update",
                                                    ![k].shift_id = CHOOSE id \in found : TRUE]
                  /\ UNCHANGED shiftReply
  /\ UNCHANGED <<shifts, matcherVars, chatVars, geoVars, ticketVars, bootstrapVars>>

\* end: the update of the row found has run.
ShiftsEnd_updated ==
  /\ \E k \in 1..Len(shiftReqs), updErr \in BOOLEAN :
       LET r == shiftReqs[k]
       IN /\ r.route = "end"
          /\ r.pc = "update"
          /\ shifts' = IF updErr THEN shifts
                       ELSE [shifts EXCEPT ![r.shift_id].end_at = 1]
          /\ shiftReply' = [route |-> "end", status |-> IF updErr THEN 400 ELSE 200]
          /\ shiftReqs' = shiftDone(k)
  /\ UNCHANGED <<matcherVars, chatVars, geoVars, ticketVars, bootstrapVars>>

ShiftNext ==
  \/ PostShiftsStart
  \/ ShiftsStart_updated
  \/ ShiftsStart_inserted
  \/ PostShiftsEnd
  \/ ShiftsEnd_selected
  \/ ShiftsEnd_updated

ShiftSpec == Init /\ [][ShiftNext]_vars

----------------------------------------------------------------------------
(* POST /api/tickets (api/tickets/route.ts).                               *)

HexChars == DigitChars \cup {"a", "b", "c", "d", "e", "f", "A", "B", "C", "D", "E", "F"}

\* z.string().uuid(): five groups of 8, 4, 4, 4 and 12 hexadecimal digits.
isUuid(id) ==
  /\ Len(id) = 36
  /\ \A i \in 1..36 : IF i \in {9, 14, 19, 24} THEN id[i] = "-" ELSE id[i] \in HexChars

\* Body.safeParse(...).success
validBody(payload) ==
  /\ payload.json
  /\ isUuid(payload.service_id)
  /\ Len(trim(payload.description)) >= 1

\* The org_id of the user's first membership in the order of org_id, 0
\* without one.
membershipOf(user) ==
  LET orgs == {m.org_id : m \in {m2 \in Memberships : m2.user_id = user}}
  IN IF orgs = {} THEN 0 ELSE CHOOSE o \in orgs : \A o2 \in orgs : o <= o2

\* The org_id of the service with this id, 0 without one.
serviceOrg(service_id) ==
  LET orgs == {v.org_id : v \in {v2 \in Services : v2.id = service_id}}
  IN IF orgs = {} THEN 0 ELSE CHOOSE o \in orgs : TRUE

\* The service check that does not look at the organisation.
serviceAllowed_anyOrg(svcOrg, memOrg) == svcOrg # 0

\* !(!svc || svc.org_id !== membership.org_id)
serviceAllowed(svcOrg, memOrg) == svcOrg # 0 /\ svcOrg = memOrg

\* The handler's response and the rows it inserts, given the errors the
\* queries report: db is "none", "mErr", "sErr", "tErr" or "noRow" (the
\* insert reports no error and returns no row; `kept` says whether the row
\* is in the table then).
postTicket(user, payload, db, kept) ==
  LET memOrg == membershipOf(user)
      row == [org_id |-> memOrg, employee_id |-> user,
              service_id |-> payload.service_id,
              description |-> trim(payload.description), status |-> "OPEN"]
  IN IF ~validBody(payload) THEN [status |-> 422, rows |-> <<>>]
     ELSE IF user = NoUser THEN [status |-> 401, rows |-> <<>>]
     ELSE IF db = "mErr" THEN [status |-> 400, rows |-> <<>>]
     ELSE IF memOrg = 0 THEN [status |-> 403, rows |-> <<>>]
     ELSE IF db = "sErr" THEN [status |-> 400, rows |-> <<>>]
     ELSE IF ~serviceAllowed(serviceOrg(payload.service_id), memOrg)
       THEN [status |-> 403, rows |-> <<>>]
     ELSE IF db = "tErr" THEN [status |-> 400, rows |-> <<>>]
     ELSE IF db = "noRow" THEN [status |-> 500, rows |-> IF kept THEN <<row>> ELSE <<>>]
     ELSE [status |-> 200, rows |-> <<row>>]

PostTickets ==
  /\ \E user \in TicketCallers, payload \in TicketPayloads,
        db \in {"none", "mErr", "sErr", "tErr", "noRow"}, kept \in BOOLEAN :
       LET reply == postTicket(user, payload, db, kept)
       IN /\ kept => db = "noRow"
          /\ Len(tickets) + Len(reply.rows) <= MaxTicketRows
          /\ tickets' = tickets \o reply.rows
          /\ ticketReply' = [status |-> reply.status, user |-> user, payload |-> payload]
  /\ UNCHANGED <<matcherVars, chatVars, geoVars, shiftVars, bootstrapVars>>

TicketNext == PostTickets

TicketSpec == Init /\ [][TicketNext]_vars

----------------------------------------------------------------------------
(* POST /api/bootstrap/superadmin (api/bootstrap/superadmin/route.ts). The *)
(* handler runs between its awaits; a request whose handler awaits a query *)
(* is in bootstrapReqs with the query it awaits. An organization's id is   *)
(* its place in the table.                                                 *)

BootstrapCallers == {NoUser, "a1", "a2"}

bootstrapDone(k) ==
  SubSeq(bootstrapReqs, 1, k - 1) \o SubSeq(bootstrapReqs, k + 1, Len(bootstrapReqs))

\* The user is read; then the handler awaits the count of memberships.
PostBootstrap ==
  /\ \E user \in BootstrapCallers :
       IF user = NoUser
       THEN /\ bootstrapReply' = [status |-> 401, user |-> user]
            /\ UNCHANGED bootstrapReqs
       ELSE /\ Len(bootstrapReqs) < MaxBootstrapReqs
            /\ memberships = <<>> => organizations + Len(bootstrapReqs) < MaxOrganizations
            /\ bootstrapReqs' = Append(bootstrapReqs, [user |-> user, pc |-> "count", org |-> 0])
            /\ UNCHANGED bootstrapReply
  /\ UNCHANGED <<memberships, organizations, matcherVars, chatVars, geoVars, shiftVars,
                 ticketVars>>

\* The count has run; with no membership in the table the handler awaits
\* the query for a membership of the user.
Bootstrap_counted ==
  /\ \E k \in 1..Len(bootstrapReqs), cErr \in BOOLEAN :
       LET r == bootstrapReqs[k]
       IN /\ r.pc = "count"
          /\ IF cErr \/ Len(memberships) > 0
             THEN /\ bootstrapReply' = [status |-> IF cErr THEN 400 ELSE 403, user |-> r.user]
                  /\ bootstrapReqs' = bootstrapDone(k)
             ELSE /\ bootstrapReqs' = [bootstrapReqs EXCEPT ![k].pc = "existing"]
                  /\ UNCHANGED bootstrapReply
  /\ UNCHANGED <<memberships, organizations, matcherVars, chatVars, geoVars, shiftVars,
                 ticketVars>>

\* The query for the user's membership has run; without one the handler
\* awaits the insert of the organization.
Bootstrap_existing ==
  /\ \E k \in 1..Len(bootstrapReqs), mErr \in BOOLEAN :
       LET r == bootstrapReqs[k]
           existing == \E i \in 1..Len(memberships) : memberships[i].user_id = r.user
       IN /\ r.pc = "existing"
          /\ IF mErr \/ existing
             THEN /\ bootstrapReply' = [status |-> IF mErr THEN 400 ELSE 200, user |-> r.user]
                  /\ bootstrapReqs' = bootstrapDone(k)
             ELSE /\ bootstrapReqs' = [bootstrapReqs EXCEPT ![k].pc = "organization"]
                  /\ UNCHANGED bootstrapReply
  /\ UNCHANGED <<memberships, organizations, matcherVars, chatVars, geoVars, shiftVars,
                 ticketVars>>

\* The insert of the organization has run; the insert of the membership is
\* awaited.
Bootstrap_organization ==
  /\ \E k \in 1..Len(bootstrapReqs), oErr \in BOOLEAN :
       LET r == bootstrapReqs[k]
       IN /\ r.pc = "organization"
          /\ IF oErr
             THEN /\ bootstrapReply' = [status |-> 400, user |-> r.user]
                  /\ bootstrapReqs' = bootstrapDone(k)
                  /\ UNCHANGED organizations
             ELSE /\ organizations' = organizations + 1
                  /\ bootstrapReqs' = [bootstrapReqs EXCEPT ![k].pc = "membership",
                                                            ![k].org = organizations + 1]
                  /\ UNCHANGED bootstrapReply
  /\ UNCHANGED <<memberships, matcherVars, chatVars, geoVars, shiftVars, ticketVars>>

\* The insert of the membership has run.
Bootstrap_membership ==
  /\ \E k \in 1..Len(bootstrapReqs), iErr \in BOOLEAN :
       LET r == bootstrapReqs[k]
       IN /\ r.pc = "membership"
          /\ memberships' = IF iErr THEN memberships
                            ELSE Append(memberships, [org_id |-> r.org, user_id |-> r.user,
                                                      role |-> "SUPER_ADMIN"])
          /\ bootstrapReply' = [status |-> IF iErr THEN 400 ELSE 200, user |-> r.user]
          /\ bootstrapReqs' = bootstrapDone(k)
  /\ UNCHANGED <<organizations, matcherVars, chatVars, geoVars, shiftVars, ticketVars>>

BootstrapNext ==
  \/ PostBootstrap
  \/ Bootstrap_counted
  \/ Bootstrap_existing
  \/ Bootstrap_organization
  \/ Bootstrap_membership

BootstrapSpec == Init /\ [][BootstrapNext]_vars

---------------------------------------------------------------------------
(* Properties of the matcher.                                              *)

\* Chat lines and phrases the properties name.
P_send_ticket == <<"s", "e", "n", "d", " ", "t", "i", "c", "k", "e", "t">>

P_invia_segnalazione == <<"i", "n", "v", "i", "a", " ", "s", "e", "g", "n", "a", "l", "a", "z", "i", "o", "n", "e">>

P_start_work == <<"s", "t", "a", "r", "t", " ", "w", "o", "r", "k">>

P_view_tickets == <<"v", "i", "e", "w", " ", "t", "i", "c", "k", "e", "t", "s">>

P_xyz123 == <<"x", "y", "z", "1", "2", "3">>

P_STRT_WRK == <<"S", "T", "R", "T", " ", "W", "R", "K">>

P_strt_wrk == <<"s", "t", "r", "t", " ", "w", "r", "k">>

Returned(f) == call = f /\ pc = "done"

\* The keywords an inline note follows: "ticket" and "send ticket", and in
\* the Italian dashboard also "segnalazione" and "invia segnalazione".
NoteKeywordPhrases(v) ==
  IF v = "en" THEN {W_ticket, P_send_ticket}
  ELSE {W_ticket, P_send_ticket, W_segnalazione, P_invia_segnalazione}

\* s is kw, at least one white space and text that is not empty once trimmed.
KeywordThenText(s, kw) ==
  /\ Len(s) > Len(kw)
  /\ SubSeq(s, 1, Len(kw)) = kw
  /\ s[Len(kw) + 1] \in WhiteSpace
  /\ trim(SubSeq(s, Len(kw) + 1, Len(s))) # <<>>

\* C1: a chat line (trimmed, as handleChatSubmit passes it) that begins with
\* a ticket keyword followed by white space and a non-empty text is detected
\* as action ticket with the trimmed text as its note.
C1_NotePriority ==
  (Returned("detect") /\ raw = trim(raw)) =>
    \A kw \in NoteKeywordPhrases(variant) :
      KeywordThenText(raw, kw) =>
        ret = [action |-> "ticket",
               note |-> trim(SubSeq(raw, Len(kw) + 1, Len(raw)))]

\* The phrases registered for action a in the dashboard's table.
PhrasesOf(v, a) ==
  LET t == IF v = "en" THEN CANON_en ELSE CANON_it
  IN t[CHOOSE k \in 1..Len(t) : t[k].action = a].list

\* The call took the canonical pass: the note regex did not decide it.
NoNote == "note" \notin DOMAIN ret

\* C2: when the note regex does not take the line and phrases of one or more
\* actions fuzzy-match it, the result is the first of start, end, tickets,
\* ticket that has a matching phrase.
C2_CanonicalOrder ==
  (Returned("detect") /\ NoNote) =>
    LET hStart == someHit(raw, PhrasesOf(variant, "start"))
        hEnd == someHit(raw, PhrasesOf(variant, "end"))
        hTickets == someHit(raw, PhrasesOf(variant, "tickets"))
        hTicket == someHit(raw, PhrasesOf(variant, "ticket"))
    IN IF hStart THEN ret = [action |-> "start"]
       ELSE IF hEnd THEN ret = [action |-> "end"]
       ELSE IF hTickets THEN ret = [action |-> "tickets"]
       ELSE IF hTicket THEN ret = [action |-> "ticket"]
       ELSE TRUE

\* A line that matches phrases of two actions, end ("end") and ticket
\* ("send ticket"), and got the earlier one.
C2_Witness ==
  /\ Returned("detect")
  /\ raw = P_send_ticket
  /\ someHit(raw, PhrasesOf(variant, "end"))
  /\ someHit(raw, PhrasesOf(variant, "ticket"))
  /\ ret = [action |-> "end"]

\* C3: "start work" is detected as start and "view tickets" as tickets, each
\* without a note, in both dashboards.
C3_Scenarios ==
  Returned("detect") =>
    /\ raw = P_start_work => ret = [action |-> "start"]
    /\ raw = P_view_tickets => ret = [action |-> "tickets"]

C3_Witness ==
  /\ Returned("detect")
  /\ variant = "en"
  /\ raw = P_view_tickets
  /\ ret = [action |-> "tickets"]

\* C4: the empty line, a line that normalizes to the empty string and
\* "xyz123" are detected as nothing, and a line that normalizes to the empty
\* string fuzzy-matches no canonical phrase.
C4_NoMatch ==
  Returned("detect") =>
    /\ (norm(raw) = <<>> \/ raw = P_xyz123) => ret = NoMatch
    /\ norm(raw) = <<>> =>
         \A a \in {"start", "end", "tickets", "ticket"} :
           ~someHit(raw, PhrasesOf(variant, a))

\* A line of white space and punctuation only.
C4_Witness ==
  /\ Returned("detect")
  /\ raw # <<>>
  /\ norm(raw) = <<>>
  /\ ret = NoMatch

\* C5: "STRT WRK" is detected as start: its normal form "strt wrk" is at
\* distance 2 of "start work", similarity 8/10, which is at least 0.78.
C5_Boundary ==
  (Returned("detect") /\ raw = P_STRT_WRK) =>
    /\ ret = [action |-> "start"]
    /\ norm(raw) = P_strt_wrk
    /\ levenshtein(norm(raw), P_start_work) = 2
    /\ similarity(norm(raw), P_start_work) = [num |-> 8, den |-> 10]
    /\ simAtLeastThreshold(similarity(norm(raw), P_start_work))

C5_Witness ==
  /\ Returned("detect")
  /\ raw = P_STRT_WRK
  /\ ~includes(P_start_work, norm(raw))
  /\ ret = [action |-> "start"]

\* What detectQuickAction may return: null, an action, or ticket with a note.
IsDetected(r) ==
  \/ r = NoMatch
  \/ DOMAIN r = {"action"} /\ r.action \in {"start", "end", "ticket", "tickets"}
  \/ DOMAIN r = {"action", "note"} /\ r.action = "ticket" /\ r.note # <<>>

\* C7: detectQuickAction returns null or one of the four actions for every
\* line, and levenshtein's nested loops advance with every step, make at most
\* (len(a)+1)*(len(b)+1) assignments to dp[i][j] and return the distance.
C7_Total ==
  /\ Returned("detect") => IsDetected(ret)
  /\ call = "levenshtein" =>
       /\ updates <= (Len(raw) + 1) * (Len(other) + 1)
       /\ pc \in {"loop", "done"}
       /\ pc = "loop" =>
            /\ li \in 1..(Len(raw) + 1)
            /\ lj \in 1..(Len(other) + 1)
            /\ updates = (li - 1) * Len(other) + (lj - 1)
            /\ ENABLED LevStep
       /\ pc = "done" => ret = levenshtein(raw, other)

\* The nested loops ran over a full table and returned.
C7_Witness ==
  /\ Returned("levenshtein")
  /\ Len(raw) = MaxLevLen
  /\ Len(other) = MaxLevLen
  /\ updates = Len(raw) * Len(other)

\* C8: norm(norm(s)) = norm(s).
C8_NormIdempotent == Returned("norm") => norm(ret) = ret

\* A string that norm changes into a non-empty one.
C8_Witness == Returned("norm") /\ ret # raw /\ ret # <<>>

\* The characters of s that are a letter, a digit or white space.
keepAlnumWs(s) == SelectSeq(s, LAMBDA c : c \in Letters \cup Numbers \cup WhiteSpace)

\* No upper-case letter, no character other than letters, digits and the
\* space, no two adjacent spaces, no space at either end.
NormalForm(s) ==
  /\ \A k \in 1..Len(s) :
       /\ s[k] \in (Letters \cup Numbers \cup {" "})
       /\ s[k] \notin UpperAscii \cup {"U+00C9", "U+FF34"}
  /\ \A k \in 1..(Len(s) - 1) : ~(s[k] = " " /\ s[k + 1] = " ")
  /\ s # <<>> => s[1] # " " /\ s[Len(s)] # " "

\* C9 as claimed: norm lower-cases the (NFKC) input, strips every character
\* that is not a letter, a digit or white space, collapses white space and
\* trims.
C9_StripReference ==
  Returned("norm") =>
    /\ ret = trim(collapseWs(keepAlnumWs(toLowerCase(nfkc(raw)))))
    /\ NormalForm(ret)

\* The words of s: its maximal runs of letters and digits, in order.
RECURSIVE wordsOf(_, _)
wordsOf(s, word) ==
  IF s = <<>> THEN (IF word = <<>> THEN <<>> ELSE <<word>>)
  ELSE IF Head(s) \in Letters \cup Numbers THEN wordsOf(Tail(s), Append(word, Head(s)))
  ELSE (IF word = <<>> THEN <<>> ELSE <<word>>) \o wordsOf(Tail(s), <<>>)

RECURSIVE joinWords(_)
joinWords(ws) ==
  IF ws = <<>> THEN <<>>
  ELSE IF Len(ws) = 1 THEN ws[1]
  ELSE ws[1] \o <<" ">> \o joinWords(Tail(ws))

\* C9 amended: norm returns the words of the NFKC form of the input in lower
\* case (every other character separates words) joined by single spaces, and
\* the result is in normal form.
C9_NormReference ==
  Returned("norm") =>
    /\ ret = joinWords(wordsOf(toLowerCase(nfkc(raw)), <<>>))
    /\ NormalForm(ret)

\* Punctuation between two letters became a space.
C9_Witness ==
  /\ Returned("norm")
  /\ raw = <<"e", ".", "B">>
  /\ ret = <<"e", " ", "b">>

\* C10: similarity is between 0 and 1 (the distance between 0 and the longer
\* length), its denominator is never 0, and similarity(a, a) = 1.
C10_SimilarityBounds ==
  Returned("similarity") =>
    /\ ret.den >= 1
    /\ 0 <= ret.num /\ ret.num <= ret.den
    /\ 0 <= levenshtein(raw, other)
    /\ levenshtein(raw, other) <= Max(Len(raw), Len(other))
    /\ raw = other => ret.num = ret.den

\* similarity("", "") = 1 with the denominator taken as 1.
C10_Witness ==
  /\ Returned("similarity")
  /\ raw = <<>>
  /\ other = <<>>
  /\ ret = [num |-> 1, den |-> 1]

\* C11: levenshtein(a, b) = levenshtein(b, a), and so
\* similarity(a, b) = similarity(b, a).
C11_Symmetry ==
  Returned("similarity") =>
    /\ levenshtein(raw, other) = levenshtein(other, raw)
    /\ ret = similarity(other, raw)

\* Two strings of different lengths, neither a prefix of the other.
C11_Witness ==
  /\ Returned("similarity")
  /\ Len(raw) > Len(other)
  /\ other # <<>>
  /\ raw[1] # other[1]
  /\ ret.num < ret.den
  /\ ret = similarity(other, raw)

\* The strings one unit-cost edit away from s: a character deleted, a
\* character replaced by another, a character inserted.
OneEdit(s) ==
  {SubSeq(s, 1, k - 1) \o SubSeq(s, k + 1, Len(s)) : k \in 1..Len(s)}
    \cup {[s EXCEPT ![k] = c] : k \in 1..Len(s), c \in LevAlphabet}
    \cup {SubSeq(s, 1, k) \o <<c>> \o SubSeq(s, k + 1, Len(s)) :
            k \in 0..Len(s), c \in LevAlphabet}

\* The least number of rounds of single edits after which b is among the
\* strings reached from the set S, counted from k; strings longer than
\* maxLen are not explored.
RECURSIVE editRounds(_, _, _, _)
editRounds(S, b, k, maxLen) ==
  IF b \in S THEN k
  ELSE editRounds(S \cup {t \in UNION {OneEdit(s) : s \in S} : Len(t) <= maxLen},
                  b, k + 1, maxLen)

\* The minimum number of single-character insertions, deletions and
\* substitutions that turn a into b.
editDistance(a, b) == editRounds({a}, b, 0, Max(Len(a), Len(b)) + 1)

\* C12: levenshtein(a, b) is the minimum number of unit-cost single-character
\* insertions, deletions and substitutions that turn a into b; it is 0
\* exactly when a = b, and the other string's length when one is empty.
C12_EditDistance ==
  Returned("levenshtein") =>
    /\ ret = editDistance(raw, other)
    /\ ret = 0 <=> raw = other
    /\ raw = <<>> => ret = Len(other)
    /\ other = <<>> => ret = Len(raw)

\* A distance made of a substitution and an insertion, below both lengths.
C12_Witness ==
  /\ Returned("levenshtein")
  /\ raw = <<"a", "b">>
  /\ other = <<"b", "b", "c">>
  /\ ret = 2

\* b occurs in a as a run of consecutive characters.
Contains(a, b) ==
  \E i \in 1..(Len(a) + 1) :
    \A k \in 1..Len(b) : i + k - 1 <= Len(a) /\ a[i + k - 1] = b[k]

\* The four ways two non-empty normal forms match.
MatchRule(A, B) ==
  LET d == levenshtein(A, B)
      longer == Max(Len(A), Len(B))
  IN \/ Contains(A, B)
     \/ Contains(B, A)
     \/ 100 * (longer - d) >= 78 * longer
     \/ longer <= 8 /\ d <= 2

\* C13: with A and B the normal forms of input and phrase, fuzzyHit is true
\* exactly when both are non-empty and A contains B, or B contains A, or
\* their similarity is at least 0.78, or neither is longer than 8 and their
\* distance is at most 2.
C13_FuzzyRule ==
  Returned("fuzzyHit") =>
    LET A == norm(raw)
        B == norm(other)
    IN /\ (A = <<>> \/ B = <<>>) => ret = FALSE
       /\ (A # <<>> /\ B # <<>>) => (ret <=> MatchRule(A, B))

\* A match that only the short-string rule gives, of strings that norm
\* changed.
C13_Witness ==
  /\ Returned("fuzzyHit")
  /\ ret = TRUE
  /\ norm(raw) # raw
  /\ ~Contains(norm(raw), norm(other))
  /\ ~Contains(norm(other), norm(raw))
  /\ ~simAtLeastThreshold(similarity(norm(raw), norm(other)))
  /\ levenshtein(norm(raw), norm(other)) = 2

\* C14: when the normal forms are non-empty and one contains the other,
\* fuzzyHit is true whatever their similarity and lengths.
C14_Substring ==
  Returned("fuzzyHit") =>
    LET A == norm(raw)
        B == norm(other)
    IN (A # <<>> /\ B # <<>> /\ (Contains(A, B) \/ Contains(B, A))) => ret = TRUE

\* A long line that contains a short phrase: similarity below 0.78, longer
\* than 8, distance above 2.
C14_Witness ==
  /\ Returned("fuzzyHit")
  /\ other = W_ticket
  /\ Len(norm(raw)) > 8
  /\ Contains(norm(raw), norm(other))
  /\ ~simAtLeastThreshold(similarity(norm(raw), norm(other)))
  /\ levenshtein(norm(raw), norm(other)) > 2
  /\ ret = TRUE

\* The keyword-pair rules in the order they are written, each with whether
\* its two patterns both match the line: in "en" start+work, end+work,
\* ticket(s)+(view|tingnan|my), send+ticket(s); in "it" these follow
\* inizia+lavoro, fine+lavoro, segnalazion..+(vedi|visualizza|mie),
\* invia+segnalazion..
RuleTable(v, line) ==
  LET en == <<[action |-> "start",
               both |-> hasWord(line, W_start) /\ hasWord(line, W_work)],
              [action |-> "end",
               both |-> hasWord(line, W_end) /\ hasWord(line, W_work)],
              [action |-> "tickets",
               both |-> /\ hasWordOptS(line, W_ticket)
                        /\ \E w \in {W_view, W_tingnan, W_my} : hasWord(line, w)],
              [action |-> "ticket",
               both |-> hasWord(line, W_send) /\ hasWordOptS(line, W_ticket)]>>
      it == <<[action |-> "start",
               both |-> hasWord(line, W_inizia) /\ hasWord(line, W_lavoro)],
              [action |-> "end",
               both |-> hasWord(line, W_fine) /\ hasWord(line, W_lavoro)],
              [action |-> "tickets",
               both |-> /\ hasWordStart(line, W_segnalazion)
                        /\ \E w \in {W_vedi, W_visualizza, W_mie} : hasWord(line, w)],
              [action |-> "ticket",
               both |-> hasWord(line, W_invia) /\ hasWordStart(line, W_segnalazion)]>>
  IN IF v = "en" THEN en ELSE it \o en

\* The rules of the table that match the line.
MatchingRules(v, line) ==
  {k \in 1..Len(RuleTable(v, line)) : RuleTable(v, line)[k].both}

\* Some phrase of some action fuzzy-matches the line.
AnyCanonicalHit ==
  \E a \in {"start", "end", "tickets", "ticket"} : someHit(raw, PhrasesOf(variant, a))

\* C15: the keyword-pair rules decide only when no canonical phrase of any
\* action fuzzy-matches the line; then the first rule in written order whose
\* two patterns both match gives the action (a line with the words "start"
\* and "work" gives start in the English dashboard), and when no rule matches
\* the result is null.
C15_KeywordFallback ==
  (Returned("detect") /\ NoNote) =>
    LET table == RuleTable(variant, raw)
        hits == MatchingRules(variant, raw)
    IN /\ AnyCanonicalHit =>
            /\ ret # NoMatch
            /\ someHit(raw, PhrasesOf(variant, ret.action))
       /\ (~AnyCanonicalHit /\ hits # {}) =>
            ret = [action |-> table[CHOOSE k \in hits : \A k2 \in hits : k <= k2].action]
       /\ (~AnyCanonicalHit /\ hits = {}) => ret = NoMatch
       /\ (/\ ~AnyCanonicalHit
           /\ variant = "en"
           /\ hasWord(raw, W_start)
           /\ hasWord(raw, W_work)) => ret = [action |-> "start"]

\* No phrase matched a line that two rules match, and the earlier rule gave
\* the action.
C15_Witness ==
  /\ Returned("detect")
  /\ NoNote
  /\ ~AnyCanonicalHit
  /\ Cardinality(MatchingRules(variant, raw)) = 2
  /\ ret = [action |-> "tickets"]

(***************************************************************************)
(* Properties of the chat session.                                         *)
(***************************************************************************)

\* The messages a NoMatch adds: the user's line, the help message and the
\* menu that carries the four action buttons.
HelpReply == <<"user", "help", "menu">>

\* The statement of C16 as written: every submitted line that is empty or
\* that the matcher cannot parse is answered by the help message and the
\* menu, and nothing else changes.
C16_EveryLineAnswered ==
  \A line \in ChatLines :
    (trim(line) = <<>> \/ detected[trim(line)] = NoMatch) =>
      handleChatSubmit(State, line) = [State EXCEPT !.messages = @ \o HelpReply]

\* C16: while the ticket composer is not shown, every submitted line that
\* is not blank and that the matcher cannot parse adds the user's line, the
\* help message and the menu with the start / end / ticket / tickets
\* buttons, and changes nothing else (no workflow is started, no prompt of
\* a workflow is added); an empty or whitespace-only submission changes no
\* state at all.
C16_NoMatchRendering ==
  \A line \in ChatLines :
    LET line0 == trim(line)
        after == handleChatSubmit(State, line)
    IN /\ line0 = <<>> => after = State
       /\ (line0 # <<>> /\ ~composerVisible(State) /\ detected[line0] = NoMatch) =>
            /\ after = [State EXCEPT !.messages = @ \o HelpReply]
            /\ buttonsOf(after.messages[Len(after.messages)])
                 = {"start", "end", "ticket", "tickets"}

\* An unparseable line was answered: the chat shows the user's line, the
\* help message and the menu, and no workflow is in flight.
C16_Witness ==
  /\ Len(messages) >= 3
  /\ SubSeq(messages, Len(messages) - 2, Len(messages)) = HelpReply
  /\ flights = <<>>

\* The statement of C17: at most one workflow is in flight, so no message
\* or button is dispatched to a workflow while an earlier one is awaited.
C17_OneInFlight == Len(flights) <= 1

(***************************************************************************)
(* Properties of reverseGeocode's cache and of the routes.                 *)
(***************************************************************************)

\* The statement of C18: a label stored for a key stays the label of that
\* key (it is not replaced and not evicted); a call whose key has a label
\* returns it without a fetch; a lookup that fails (a response that is not
\* OK, an exception, an empty label) returns null and stores nothing.
C18_Memoized ==
  [][/\ \A key \in DOMAIN addrCache :
          key \in DOMAIN addrCache' /\ addrCache'[key] = addrCache[key]
     /\ \A c \in GeoCoords :
          (geoKey(c.lat, c.lng) \in DOMAIN addrCache /\ reverseGeocode(c.lat, c.lng)) =>
            /\ geoRet'.label = addrCache[geoKey(c.lat, c.lng)]
            /\ ~geoRet'.fetched
            /\ geoCalls' = geoCalls
     /\ \A k \in 1..Len(geoCalls), response \in GeoResponses \ GeoLabels :
          reverseGeocode_fetched(k, response) =>
            /\ geoRet'.label = ""
            /\ addrCache' = addrCache]_vars

\* The statement of C19: no user has two rows of shifts whose end_at is
\* null.
C19_SingleOpenShift ==
  \A user \in ShiftCallers : Cardinality(openShifts(user)) <= 1

\* C20: a response of 422, 401, 403 or 400 leaves the tickets table as it
\* was; a request that inserts adds one row, its body is valid, its caller
\* is signed in and has a membership, the service of its service_id is of
\* the organisation of that membership, and the row has status OPEN, the
\* caller as employee_id and the service's organisation as org_id.
C20_TicketGuard ==
  [][LET reply == ticketReply'
         body == reply.payload
     IN /\ reply.status \in {422, 401, 403, 400} => tickets' = tickets
        /\ tickets' # tickets =>
             /\ Len(tickets') = Len(tickets) + 1
             /\ SubSeq(tickets', 1, Len(tickets)) = tickets
             /\ body.json
             /\ isUuid(body.service_id)
             /\ trim(body.description) # <<>>
             /\ reply.user # NoUser
             /\ \E m \in Memberships, v \in Services :
                  /\ m.user_id = reply.user
                  /\ v.id = body.service_id
                  /\ v.org_id = m.org_id
                  /\ tickets'[Len(tickets')].org_id = v.org_id
             /\ tickets'[Len(tickets')].status = "OPEN"
             /\ tickets'[Len(tickets')].employee_id = reply.user
             /\ tickets'[Len(tickets')].service_id = body.service_id]_vars

\* A ticket was inserted and answered with 200, by a user who is a member
\* of two organisations.
C20_Witness ==
  /\ ticketReply.status = 200
  /\ ticketReply.user = "uAB"
  /\ tickets # <<>>
  /\ tickets[Len(tickets)].employee_id = "uAB"

(***************************************************************************)
(* Properties of the dashboard's workflows.                                *)
(***************************************************************************)

\* The number of POST /api/tickets requests that have not been answered.
sending(fs) == Len(SelectSeq(fs, LAMBDA f : f.op = "sendTicket"))

\* The statement of C21: a POST /api/tickets is issued only while the
\* dashboard holds an active shift id, a service is selected, the notes are
\* not blank and no send is in flight; beginTicket and sendTicket without
\* an active shift add only the "not clocked in" prompt.
C21_ClockedInSend ==
  [][/\ sending(flights') > sending(flights) =>
          /\ shiftId # 0
          /\ ticketDraft.serviceId # ""
          /\ trim(ticketDraft.notes) # <<>>
          /\ sending(flights) = 0
     /\ shiftId = 0 =>
          /\ sendTicket(State) = addAssistant(State, "notClockedIn")
          /\ \A prefill \in NoteTexts :
               beginTicket(State, prefill) = addAssistant(State, "notClockedIn")]_vars

\* The statement of C22: over any sequence or interleaving of bootstrap
\* requests at most one SUPER_ADMIN membership is created.
C22_BootstrapOnce ==
  Cardinality({i \in 1..Len(memberships) : memberships[i].role = "SUPER_ADMIN"}) <= 1

\* The number of workflows of one kind that are in flight.
inFlight(fs, op) == Len(SelectSeq(fs, LAMBDA f : f.op = op))

\* The shift the dashboard shows: shiftId, activeStart, activeGeo and
\* activeAddr.
shiftFields == <<shiftId, activeStart, activeGeo, activeAddr>>

\* The last two messages of the chat.
lastTwo(ms) == IF Len(ms) < 2 THEN <<>> ELSE SubSeq(ms, Len(ms) - 1, Len(ms))

\* C23: startShift sends nothing when a shift is active and endShift sends
\* nothing when none is; after the bootstrap the four shift fields change
\* only when a start or an end request is answered with success: shiftId
\* becomes the id returned by the start, or the four fields are cleared by
\* the end; a workflow that ends with an error message (geolocation
\* rejected, an error response, a body that is not JSON, missing data)
\* leaves the four fields as they were.
C23_ShiftFollowsServer ==
  [][/\ inFlight(flights', "startShift") > inFlight(flights, "startShift") => shiftId = 0
     /\ inFlight(flights', "endShift") > inFlight(flights, "endShift") => shiftId # 0
     /\ shiftId # 0 => startShift(State).flights = flights
     /\ shiftId = 0 => endShift(State).flights = flights
     /\ (boot' = boot /\ shiftFields' # shiftFields) =>
          \E k \in 1..Len(flights) :
            /\ flights[k].pc = "post"
            /\ flights' = landed(State, k).flights
            /\ \/ /\ flights[k].op = "startShift"
                  /\ shiftId' # 0
                  /\ lastTwo(messages') = <<"started", "menu">>
               \/ /\ flights[k].op = "endShift"
                  /\ shiftFields' = <<0, 0, 0, 0>>
                  /\ lastTwo(messages') = <<"ended", "menu">>
     /\ (Len(flights') < Len(flights) /\ lastTwo(messages') = <<"error", "menu">>) =>
          shiftFields' = shiftFields
     /\ \A k \in 1..Len(flights), id \in 1..MaxShiftId, row \in BOOLEAN, addr \in BOOLEAN :
          (flights[k].op = "startShift" /\ flights[k].pc = "post") =>
            /\ startShift_post(State, k, TRUE, id, row, addr).shiftId = id
            /\ startShift_post(State, k, FALSE, id, row, addr).shiftId = shiftId]_vars

\* A start request failed and left no shift, and a later one succeeded.
C23_Witness ==
  /\ shiftId # 0
  /\ \E k \in 1..Len(messages) : messages[k] = "error"
  /\ lastTwo(messages) = <<"started", "menu">>

\* C24: when a POST /api/tickets that sendTicket sent is answered (with a
\* ticket, with an error, or by a throw), no ticket-composer message is
\* left, the draft is empty with sending false, and the last message is the
\* menu; the list myTickets gets one more ticket when the answer was a
\* ticket and is unchanged otherwise.
C24_SendCleansUp ==
  [][inFlight(flights', "sendTicket") < inFlight(flights, "sendTicket") =>
       /\ \A k \in 1..Len(messages') : messages'[k] # "ticket-composer"
       /\ ticketDraft' = EmptyDraft
       /\ \/ /\ lastTwo(messages') = <<"submitted", "menu">>
             /\ myTickets' = myTickets + 1
          \/ /\ lastTwo(messages') = <<"error", "menu">>
             /\ myTickets' = myTickets]_vars

\* A ticket was sent and submitted: the composer is gone, the draft is
\* empty and the list has the ticket.
C24_Witness ==
  /\ lastTwo(messages) = <<"submitted", "menu">>
  /\ ticketDraft = EmptyDraft
  /\ myTickets > 0
  /\ inFlight(flights, "sendTicket") = 0

\* Lines typed while the composer is shown: the words of the composer
\* with other letter case and with spaces around them, lines that only
\* start with such a word, and the lines of the chat.
ComposerLines ==
  ChatLines \cup
  {<<"s", "u", "b", "m", "i", "t">>, <<" ", "S", "E", "N", "D", " ">>, <<"s", "e", "n", "d", " ", "i", "t">>,
   <<"w", "a", "g", " ", "n", "a">>, <<"H", "u", "w", "a", "g", " ", "N", "a">>,
   <<"c", "a", "n", "c", "e", "l", " ", "i", "t">>, <<"r", "e", "s", "e", "n", "d">>,
   <<"s", "t", "a", "r", "t", " ", "w", "o", "r", "k">>}

SendLines == {<<"s", "e", "n", "d">>, <<"s", "u", "b", "m", "i", "t">>}

CancelLines == {<<"c", "a", "n", "c", "e", "l">>, <<"w", "a", "g", " ", "n", "a">>, <<"h", "u", "w", "a", "g", " ", "n", "a">>}

C26_CanonicalOwnAction ==
  Returned("detect") =>
    \A k \in 1..Len(CANON(variant)) :
      (\E p \in 1..Len(CANON(variant)[k].list) : CANON(variant)[k].list[p] = raw) =>
        /\ ret # NoMatch
        /\ ret.action = CANON(variant)[k].action

(***************************************************************************)
(* Properties of the ticket composer.                                      *)
(***************************************************************************)

\* The statement of C27: whenever a ticket-composer message is shown the
\* dashboard holds an active shift id.
C27_ComposerImpliesShift == composerVisible(State) => shiftId # 0

\* The number of ticket-composer messages.
composers(ms) == Len(SelectSeq(ms, LAMBDA m : m = "ticket-composer"))

\* C27, amended: a ticket-composer message is added only while the
\* dashboard holds an active shift id; the shift can end while the composer
\* is shown, and as long as a composer is shown without a shift id no
\* ticket is sent: sendTicket adds only the "not clocked in" prompt.
C27_ComposerOpenedOnShift ==
  [][/\ composers(messages') > composers(messages) => shiftId # 0
     /\ (composerVisible(State) /\ shiftId = 0) =>
          /\ sendTicket(State) = addAssistant(State, "notClockedIn")
          /\ inFlight(flights', "sendTicket") <= inFlight(flights, "sendTicket")]_vars

\* The shift ended while the composer was shown.
C27_Witness ==
  /\ composerVisible(State)
  /\ shiftId = 0
  /\ \E k \in 1..Len(messages) : messages[k] = "ended"

\* The statement of C28: a line that the matcher of the English dashboard
\* maps to an action is mapped to the same action, with the same note, by
\* the matcher of the Italian dashboard.
C28_LocaleExtension ==
  (Returned("detect") /\ variant = "it") =>
    LET english == detectQuickAction("en", raw)
    IN english # NoMatch => ret = english

====
